---------------------------- MODULE Spec2Model ----------------------------
(***************************************************************************)
(* A model of scripts/normalize_svg.py: the transform parser, the matrix   *)
(* algebra, the geometry rewriters, the style resolver, the group          *)
(* flattener and the viewBox normaliser, with main() as the state machine  *)
(* that runs them over an SVG document tree.                               *)
(*                                                                         *)
(* Conventions.                                                            *)
(*  - An attribute value is the attribute's text.  Plain attributes (fill, *)
(*    x, stroke-width, ...) are TLA+ strings.  Attributes whose text the   *)
(*    code tokenises with a regular expression (transform, d, points,      *)
(*    viewBox) are the sequence of their tokens, every number token kept   *)
(*    as its text; the empty text is the empty sequence.                   *)
(*  - Python floats are modelled by integers: every input number is an     *)
(*    integer and every transform keeps products integral (translations,   *)
(*    integer scales, quarter turns, unit skews).                          *)
(*  - An Optional value is a sequence of length 0 (None) or 1.             *)
(***************************************************************************)
EXTENDS Integers, Sequences, FiniteSets, TLC

(***************************************************************************)
(* Bounds of the model.                                                    *)
(***************************************************************************)
MaxNum == 120      \* numbers the text <-> float conversions range over
MaxLen == 2        \* transform functions in one parsed transform list
MaxDepth == 2      \* groups nested above a leaf

(***************************************************************************)
(* Number text.  float(s) is the inverse of the three renderings the       *)
(* program reads or writes: "5" (input text, str(int)), "5.0" (str(float)) *)
(* and "5.000000" (the f'{n:.6f}' format).                                 *)
(***************************************************************************)
NumRange == (0 - MaxNum)..MaxNum

PyStrInt(n) == ToString(n)

PyStrFloat(n) == ToString(n) \o ".0"

Fmt6(n) == ToString(n) \o ".000000"

NumText == [n \in NumRange |-> {PyStrInt(n), PyStrFloat(n), Fmt6(n)}]

IsNumeric(s) == \E n \in NumRange : s \in NumText[n]

float(s) == CHOOSE n \in NumRange : s \in NumText[n]

Floats(ss) == [i \in 1..Len(ss) |-> float(ss[i])]

None == <<>>

Some(v) == <<v>>

(***************************************************************************)
(* MATRIX MATH                                                             *)
(***************************************************************************)
identity_matrix == <<1, 0, 0, 1, 0, 0>>

multiply_matrices_swapped(m1, m2) ==
    << m2[1]*m1[1] + m2[3]*m1[2],
       m2[2]*m1[1] + m2[4]*m1[2],
       m2[1]*m1[3] + m2[3]*m1[4],
       m2[2]*m1[3] + m2[4]*m1[4],
       m2[1]*m1[5] + m2[3]*m1[6] + m2[5],
       m2[2]*m1[5] + m2[4]*m1[6] + m2[6] >>

\* the product without the left matrix's translation
multiply_matrices_no_offset(m1, m2) ==
    << m1[1]*m2[1] + m1[3]*m2[2],
       m1[2]*m2[1] + m1[4]*m2[2],
       m1[1]*m2[3] + m1[3]*m2[4],
       m1[2]*m2[3] + m1[4]*m2[4],
       m1[1]*m2[5] + m1[3]*m2[6],
       m1[2]*m2[5] + m1[4]*m2[6] >>

multiply_matrices(m1, m2) ==
    << m1[1]*m2[1] + m1[3]*m2[2],
       m1[2]*m2[1] + m1[4]*m2[2],
       m1[1]*m2[3] + m1[3]*m2[4],
       m1[2]*m2[3] + m1[4]*m2[4],
       m1[1]*m2[5] + m1[3]*m2[6] + m1[5],
       m1[2]*m2[5] + m1[4]*m2[6] + m1[6] >>

transform_point(x, y, matrix) ==
    << matrix[1]*x + matrix[3]*y + matrix[5],
       matrix[2]*x + matrix[4]*y + matrix[6] >>

\* math.sqrt on the perfect squares the model's matrices produce
sqrt(n) == CHOOSE r \in 0..n : r * r = n

get_matrix_scale(matrix) ==
    << sqrt(matrix[1]*matrix[1] + matrix[2]*matrix[2]),
       sqrt(matrix[3]*matrix[3] + matrix[4]*matrix[4]) >>

(***************************************************************************)
(* TRANSFORM PARSING                                                       *)
(* A transform text is the sequence of its "name(args)" items, args the    *)
(* number tokens of line 92.                                               *)
(***************************************************************************)
\* str.lower() on the function names the model writes
lower(name) ==
    CASE name = "skewX" -> "skewx"
      [] name = "skewY" -> "skewy"
      [] name = "Translate" -> "translate"
      [] OTHER -> name

TransformNames == {"translate", "scale", "rotate", "skewx", "skewy", "matrix"}

\* re.findall searches the text, so the pattern of line 87 also matches where
\* a known name ends a longer written name: the group it captures
captured(name) ==
    CASE name = "xscale" -> "scale"
      [] OTHER -> name

\* the pattern of line 87: a known name (any case) and a non-empty "(...)"
PatternMatches(item) ==
    /\ lower(captured(item.name)) \in TransformNames
    /\ item.args # <<>>

\* math.cos / math.sin / math.tan of math.radians(deg), on the angles whose
\* value is an integer (up to the float error of the library, ~1e-16)
cos_deg(deg) ==
    CASE deg % 360 = 0 -> 1
      [] deg % 360 = 90 -> 0
      [] deg % 360 = 180 -> 0 - 1
      [] deg % 360 = 270 -> 0

sin_deg(deg) ==
    CASE deg % 360 = 0 -> 0
      [] deg % 360 = 90 -> 1
      [] deg % 360 = 180 -> 0
      [] deg % 360 = 270 -> 0 - 1

tan_deg(deg) ==
    CASE deg % 180 = 0 -> 0
      [] deg % 180 = 45 -> 1
      [] deg % 180 = 135 -> 0 - 1

\* lines 95-141: the matrix of one matched item
primitive_matrix(func_name, nums) ==
    CASE func_name = "translate" ->
           LET tx == IF Len(nums) > 0 THEN nums[1] ELSE 0
               ty == IF Len(nums) > 1 THEN nums[2] ELSE 0
           IN  <<1, 0, 0, 1, tx, ty>>
      [] func_name = "scale" ->
           LET sx == IF Len(nums) > 0 THEN nums[1] ELSE 1
               sy == IF Len(nums) > 1 THEN nums[2] ELSE sx
           IN  <<sx, 0, 0, sy, 0, 0>>
      [] func_name = "rotate" ->
           LET angle_deg == IF Len(nums) > 0 THEN nums[1] ELSE 0
               cos_a == cos_deg(angle_deg)
               sin_a == sin_deg(angle_deg)
           IN  IF Len(nums) >= 3
               THEN LET cx == nums[2]
                        cy == nums[3]
                    IN  << cos_a, sin_a, 0 - sin_a, cos_a,
                           cx - cos_a*cx + sin_a*cy,
                           cy - sin_a*cx - cos_a*cy >>
               ELSE << cos_a, sin_a, 0 - sin_a, cos_a, 0, 0 >>
      [] func_name = "skewx" ->
           LET angle_deg == IF Len(nums) > 0 THEN nums[1] ELSE 0
           IN  <<1, 0, tan_deg(angle_deg), 1, 0, 0>>
      [] func_name = "skewy" ->
           LET angle_deg == IF Len(nums) > 0 THEN nums[1] ELSE 0
           IN  <<1, tan_deg(angle_deg), 0, 1, 0, 0>>
      [] func_name = "matrix" ->
           IF Len(nums) >= 6 THEN SubSeq(nums, 1, 6) ELSE identity_matrix

\* lines 90-144: the loop over the matches, result = result x m
RECURSIVE compose_matches(_, _)
compose_matches(result, matches) ==
    IF matches = <<>> THEN result
    ELSE LET item == Head(matches)
             m == primitive_matrix(lower(captured(item.name)), Floats(item.args))
         IN  compose_matches(multiply_matrices(result, m), Tail(matches))

\* transform_str is Optional: None, or Some(the items of the text)
parse_transform_string(transform_str) ==
    IF transform_str = None \/ transform_str[1] = <<>>
    THEN identity_matrix
    ELSE compose_matches(identity_matrix,
                         SelectSeq(transform_str[1], PatternMatches))

\* line 93: float(n) raises ValueError on a token the number pattern takes
\* and float() rejects ("1.2.3"); the exception leaves parse_transform_string
parse_transform_raises(transform_str) ==
    /\ transform_str # None
    /\ \E i \in 1..Len(transform_str[1]) :
          /\ PatternMatches(transform_str[1][i])
          /\ \E j \in 1..Len(transform_str[1][i].args) :
                ~ IsNumeric(transform_str[1][i].args[j])

(***************************************************************************)
(* ELEMENTS                                                                *)
(* An element is [tag, attrs, children, text]: tag is the local name (the  *)
(* part after the namespace's "}"), attrs the ElementTree attrib dict,     *)
(* children the ids of its child elements in document order, text the      *)
(* rules of a <style> element's CSS text.                                  *)
(***************************************************************************)
TokenisedAttrs == {"transform", "d", "points", "viewBox", "class", "style"}

EmptyText(name) == IF name \in TokenisedAttrs THEN <<>> ELSE ""

\* elem.get(name) is not None
has_attr(elem, name) == name \in DOMAIN elem.attrs

\* the truth value of elem.get(name): present and not the empty text
truthy_attr(elem, name) ==
    /\ name \in DOMAIN elem.attrs
    /\ elem.attrs[name] # EmptyText(name)

\* elem.get(name), as an Optional
get_attr(elem, name) ==
    IF name \in DOMAIN elem.attrs THEN Some(elem.attrs[name]) ELSE None

\* elem.get(name, default)
get_attr_default(elem, name, default) ==
    IF name \in DOMAIN elem.attrs THEN elem.attrs[name] ELSE default

\* elem.set(name, value)
set_attr(elem, name, value) ==
    [elem EXCEPT !.attrs =
        [n \in (DOMAIN elem.attrs) \cup {name} |->
            IF n = name THEN value ELSE elem.attrs[n]]]

\* del elem.attrib[name]
del_attr(elem, name) ==
    [elem EXCEPT !.attrs = [n \in (DOMAIN elem.attrs) \ {name} |-> elem.attrs[n]]]

\* the truth value of an Optional string (None and '' are false)
truthy(opt) == opt # None /\ opt[1] # ""

(***************************************************************************)
(* COORDINATE TRANSFORMATION                                               *)
(* A path text is the sequence of the (command letter, parameter text)     *)
(* matches of line 165, the parameter text being its number tokens         *)
(* (line 183).                                                             *)
(***************************************************************************)
UpperOf == [c \in {"M", "L", "H", "V", "C", "S", "Q", "T", "A", "Z",
                   "m", "l", "h", "v", "c", "s", "q", "t", "a", "z"} |->
            CASE c \in {"M", "m"} -> "M" [] c \in {"L", "l"} -> "L"
              [] c \in {"H", "h"} -> "H" [] c \in {"V", "v"} -> "V"
              [] c \in {"C", "c"} -> "C" [] c \in {"S", "s"} -> "S"
              [] c \in {"Q", "q"} -> "Q" [] c \in {"T", "t"} -> "T"
              [] c \in {"A", "a"} -> "A" [] c \in {"Z", "z"} -> "Z"]

islower(c) == c \in {"m", "l", "h", "v", "c", "s", "q", "t", "a", "z"}

Fmt6All(ns) == [i \in 1..Len(ns) |-> Fmt6(ns[i])]

\* math.degrees(math.atan2(b, a)) on the axis directions
atan2_deg(b, a) ==
    CASE b = 0 /\ a >= 0 -> 0
      [] b = 0 /\ a < 0 -> 180
      [] a = 0 /\ b > 0 -> 90
      [] a = 0 /\ b < 0 -> 0 - 90

\* the current point following the moved endpoint instead of the original one
RECURSIVE pair_groups_moved_point(_, _, _, _, _, _, _)
pair_groups_moved_point(nums, size, is_relative, matrix, cx, cy, acc) ==
    IF Len(nums) < size THEN <<acc, cx, cy>>
    ELSE LET absolute == [i \in 1..size |->
                            IF is_relative
                            THEN nums[i] + (IF i % 2 = 1 THEN cx ELSE cy)
                            ELSE nums[i]]
             moved == [i \in 1..size |->
                         IF i % 2 = 1
                         THEN transform_point(absolute[i], absolute[i+1], matrix)[1]
                         ELSE transform_point(absolute[i-1], absolute[i], matrix)[2]]
         IN  pair_groups_moved_point(SubSeq(nums, size + 1, Len(nums)), size,
                                     is_relative, matrix, moved[size - 1], moved[size],
                                     acc \o moved)

\* The loops of lines 190-198, 230-244, 250-261 and 267-278: groups of
\* `size` numbers (size/2 coordinate pairs), each pair offset by the current
\* point when relative; the current point becomes the group's last pair.
\* Returns <<transformed numbers, current_x, current_y>>.
RECURSIVE pair_groups(_, _, _, _, _, _, _)
pair_groups(nums, size, is_relative, matrix, cx, cy, acc) ==
    IF Len(nums) < size THEN <<acc, cx, cy>>
    ELSE LET absolute == [i \in 1..size |->
                            IF is_relative
                            THEN nums[i] + (IF i % 2 = 1 THEN cx ELSE cy)
                            ELSE nums[i]]
             moved == [i \in 1..size |->
                         IF i % 2 = 1
                         THEN transform_point(absolute[i], absolute[i+1], matrix)[1]
                         ELSE transform_point(absolute[i-1], absolute[i], matrix)[2]]
         IN  pair_groups(SubSeq(nums, size + 1, Len(nums)), size, is_relative,
                         matrix, absolute[size - 1], absolute[size], acc \o moved)

\* a horizontal line drawn from y = 0 rather than from the current y
RECURSIVE h_values_without_y(_, _, _, _, _, _)
h_values_without_y(nums, is_relative, matrix, cx, cy, acc) ==
    IF nums = <<>> THEN <<acc, cx, cy>>
    ELSE LET x == IF is_relative THEN nums[1] + cx ELSE nums[1]
             p == transform_point(x, 0, matrix)
         IN  h_values_without_y(Tail(nums), is_relative, matrix, x, cy, acc \o p)

\* lines 205-212: H
RECURSIVE h_values(_, _, _, _, _, _)
h_values(nums, is_relative, matrix, cx, cy, acc) ==
    IF nums = <<>> THEN <<acc, cx, cy>>
    ELSE LET x == IF is_relative THEN nums[1] + cx ELSE nums[1]
             p == transform_point(x, cy, matrix)
         IN  h_values(Tail(nums), is_relative, matrix, x, cy, acc \o p)

\* lines 218-224: V
RECURSIVE v_values(_, _, _, _, _, _)
v_values(nums, is_relative, matrix, cx, cy, acc) ==
    IF nums = <<>> THEN <<acc, cx, cy>>
    ELSE LET y == IF is_relative THEN nums[1] + cy ELSE nums[1]
             p == transform_point(cx, y, matrix)
         IN  v_values(Tail(nums), is_relative, matrix, cx, y, acc \o p)

\* the sweep flag kept whatever the determinant
RECURSIVE arc_groups_keep_sweep(_, _, _, _, _, _)
arc_groups_keep_sweep(nums, is_relative, matrix, cx, cy, acc) ==
    IF Len(nums) < 7 THEN <<acc, cx, cy>>
    ELSE LET x == IF is_relative THEN nums[6] + cx ELSE nums[6]
             y == IF is_relative THEN nums[7] + cy ELSE nums[7]
             n == transform_point(x, y, matrix)
             scale == get_matrix_scale(matrix)
             new_rotation == nums[3] + atan2_deg(matrix[2], matrix[1])
         IN  arc_groups_keep_sweep(SubSeq(nums, 8, Len(nums)), is_relative, matrix, x, y,
                        acc \o << nums[1] * scale[1], nums[2] * scale[2],
                                  new_rotation, nums[4], nums[5], n[1], n[2] >>)

\* lines 285-314: A
RECURSIVE arc_groups(_, _, _, _, _, _)
arc_groups(nums, is_relative, matrix, cx, cy, acc) ==
    IF Len(nums) < 7 THEN <<acc, cx, cy>>
    ELSE LET x == IF is_relative THEN nums[6] + cx ELSE nums[6]
             y == IF is_relative THEN nums[7] + cy ELSE nums[7]
             n == transform_point(x, y, matrix)
             scale == get_matrix_scale(matrix)
             new_rotation == nums[3] + atan2_deg(matrix[2], matrix[1])
             det == matrix[1] * matrix[4] - matrix[2] * matrix[3]
             new_sweep == IF det >= 0 THEN nums[5] ELSE 1 - nums[5]
         IN  arc_groups(SubSeq(nums, 8, Len(nums)), is_relative, matrix, x, y,
                        acc \o << nums[1] * scale[1], nums[2] * scale[2],
                                  new_rotation, nums[4], new_sweep, n[1], n[2] >>)

\* the current point sent back to the origin by a command without numbers
bare_command_resets(item, cx, cy) ==
    << [cmd |-> IF islower(item.cmd) /\ UpperOf[item.cmd] # "Z"
                THEN item.cmd ELSE UpperOf[item.cmd],
        params |-> <<>>], 0, 0 >>

\* lines 173-180: a Z, or a command without parameters, is appended as its
\* letter alone (uppercase unless relative) and the loop continues
bare_command(item, cx, cy) ==
    << [cmd |-> IF islower(item.cmd) /\ UpperOf[item.cmd] # "Z"
                THEN item.cmd ELSE UpperOf[item.cmd],
        params |-> <<>>], cx, cy >>

\* lines 170-320: one command; returns <<output item, current_x, current_y>>
path_command(item, matrix, cx, cy) ==
    LET cmd_upper == UpperOf[item.cmd]
        is_relative == islower(item.cmd) /\ cmd_upper # "Z"
        nums == Floats(item.params)
        out(letter, r) == << [cmd |-> letter, params |-> Fmt6All(r[1])], r[2], r[3] >>
    IN  IF item.params = <<>> \/ cmd_upper = "Z"
        THEN bare_command(item, cx, cy)
        ELSE CASE cmd_upper \in {"M", "L", "T"} ->
                    out(cmd_upper, pair_groups(nums, 2, is_relative, matrix, cx, cy, <<>>))
               [] cmd_upper = "H" ->
                    out("L", h_values(nums, is_relative, matrix, cx, cy, <<>>))
               [] cmd_upper = "V" ->
                    out("L", v_values(nums, is_relative, matrix, cx, cy, <<>>))
               [] cmd_upper = "C" ->
                    out("C", pair_groups(nums, 6, is_relative, matrix, cx, cy, <<>>))
               [] cmd_upper \in {"S", "Q"} ->
                    out(cmd_upper, pair_groups(nums, 4, is_relative, matrix, cx, cy, <<>>))
               [] cmd_upper = "A" ->
                    out("A", arc_groups(nums, is_relative, matrix, cx, cy, <<>>))

RECURSIVE path_commands(_, _, _, _, _)
path_commands(commands, matrix, cx, cy, result) ==
    IF commands = <<>> THEN result
    ELSE LET r == path_command(Head(commands), matrix, cx, cy)
         IN  path_commands(Tail(commands), matrix, r[2], r[3], Append(result, r[1]))

transform_path_d(d, matrix) ==
    IF d = <<>> THEN d ELSE path_commands(d, matrix, 0, 0, <<>>)

\* lines 325-339: the points text is its number tokens
RECURSIVE point_pairs(_, _, _)
point_pairs(nums, matrix, acc) ==
    IF Len(nums) < 2 THEN acc
    ELSE LET p == transform_point(nums[1], nums[2], matrix)
         IN  point_pairs(SubSeq(nums, 3, Len(nums)), matrix,
                         acc \o <<Fmt6(p[1]), Fmt6(p[2])>>)

transform_points(points_str, matrix) ==
    IF points_str = <<>> THEN points_str
    ELSE point_pairs(Floats(points_str), matrix, <<>>)

\* the first value instead of the least
min_of_first(vs) == vs[1]

\* min() / max() of a non-empty list
min_of(vs) == CHOOSE v \in {vs[i] : i \in 1..Len(vs)} : \A j \in 1..Len(vs) : v <= vs[j]

max_of(vs) == CHOOSE v \in {vs[i] : i \in 1..Len(vs)} : \A j \in 1..Len(vs) : v >= vs[j]

\* sw * avg_scale with avg_scale = (scale_x + scale_y) / 2; the model's
\* inputs keep the product integral
times_avg_scale(v, matrix) ==
    LET scale == get_matrix_scale(matrix)
    IN  CHOOSE r \in NumRange : 2 * r = v * (scale[1] + scale[2])

\* lines 356-366: stroke-width follows the scale
adjust_stroke_width(elem, matrix) ==
    IF truthy_attr(elem, "stroke-width") /\ IsNumeric(elem.attrs["stroke-width"])
    THEN set_attr(elem, "stroke-width",
                  Fmt6(times_avg_scale(float(elem.attrs["stroke-width"]), matrix)))
    ELSE elem

\* lines 368-471: the geometry of each tag
transform_geometry(elem, matrix) ==
    LET num(name) == float(get_attr_default(elem, name, "0"))
        set2(e, nx, ny, p) == set_attr(set_attr(e, nx, Fmt6(p[1])), ny, Fmt6(p[2]))
        scale == get_matrix_scale(matrix)
    IN  CASE elem.tag = "path" ->
               IF truthy_attr(elem, "d")
               THEN set_attr(elem, "d", transform_path_d(elem.attrs["d"], matrix))
               ELSE elem
          [] elem.tag \in {"polygon", "polyline"} ->
               IF truthy_attr(elem, "points")
               THEN set_attr(elem, "points", transform_points(elem.attrs["points"], matrix))
               ELSE elem
          [] elem.tag = "rect" ->
               LET x == num("x")
                   y == num("y")
                   w == num("width")
                   h == num("height")
                   p1 == transform_point(x, y, matrix)
                   p2 == transform_point(x + w, y, matrix)
                   p3 == transform_point(x + w, y + h, matrix)
                   p4 == transform_point(x, y + h, matrix)
                   xs == <<p1[1], p2[1], p3[1], p4[1]>>
                   ys == <<p1[2], p2[2], p3[2], p4[2]>>
                   new_x == min_of(xs)
                   new_y == min_of(ys)
               IN  set_attr(set_attr(set2(elem, "x", "y", <<new_x, new_y>>),
                                     "width", Fmt6(max_of(xs) - new_x)),
                            "height", Fmt6(max_of(ys) - new_y))
          [] elem.tag = "circle" ->
               set_attr(set2(elem, "cx", "cy", transform_point(num("cx"), num("cy"), matrix)),
                        "r", Fmt6(times_avg_scale(num("r"), matrix)))
          [] elem.tag = "ellipse" ->
               set_attr(set_attr(
                   set2(elem, "cx", "cy", transform_point(num("cx"), num("cy"), matrix)),
                   "rx", Fmt6(num("rx") * scale[1])),
                   "ry", Fmt6(num("ry") * scale[2]))
          [] elem.tag = "line" ->
               set2(set2(elem, "x1", "y1", transform_point(num("x1"), num("y1"), matrix)),
                    "x2", "y2", transform_point(num("x2"), num("y2"), matrix))
          [] elem.tag \in {"use", "text"} ->
               IF truthy_attr(elem, "x") /\ truthy_attr(elem, "y")
               THEN set2(elem, "x", "y", transform_point(num("x"), num("y"), matrix))
               ELSE elem
          [] OTHER -> elem

\* lines 352-353, 474-475 and 653-654: if elem.get('transform'): del ...
remove_transform(elem) ==
    IF truthy_attr(elem, "transform") THEN del_attr(elem, "transform") ELSE elem

apply_matrix_to_element(elem, matrix) ==
    IF matrix = <<1, 0, 0, 1, 0, 0>>
    THEN remove_transform(elem)
    ELSE remove_transform(transform_geometry(adjust_stroke_width(elem, matrix), matrix))

\* line 184: float(n) raises on a malformed number token of a command that
\* has parameters and is no Z
transform_path_raises(d) ==
    \E i \in 1..Len(d) :
       /\ d[i].params # <<>>
       /\ UpperOf[d[i].cmd] # "Z"
       /\ \E j \in 1..Len(d[i].params) : ~ IsNumeric(d[i].params[j])

\* line 331
transform_points_raises(points_str) ==
    \E j \in 1..Len(points_str) : ~ IsNumeric(points_str[j])

\* lines 368-471: the float(...) calls on the geometry attributes are not
\* guarded; the one on stroke-width (lines 359-366) is
geometry_raises(elem) ==
    LET bad(name) == ~ IsNumeric(get_attr_default(elem, name, "0"))
    IN  CASE elem.tag = "path" ->
               truthy_attr(elem, "d") /\ transform_path_raises(elem.attrs["d"])
          [] elem.tag \in {"polygon", "polyline"} ->
               truthy_attr(elem, "points") /\ transform_points_raises(elem.attrs["points"])
          [] elem.tag = "rect" -> bad("x") \/ bad("y") \/ bad("width") \/ bad("height")
          [] elem.tag = "circle" -> bad("cx") \/ bad("cy") \/ bad("r")
          [] elem.tag = "ellipse" -> bad("cx") \/ bad("cy") \/ bad("rx") \/ bad("ry")
          [] elem.tag = "line" -> bad("x1") \/ bad("y1") \/ bad("x2") \/ bad("y2")
          [] elem.tag \in {"use", "text"} ->
               truthy_attr(elem, "x") /\ truthy_attr(elem, "y") /\ (bad("x") \/ bad("y"))
          [] OTHER -> FALSE

\* apply_matrix_to_element raises ValueError instead of returning
apply_matrix_raises(elem, matrix) ==
    matrix # <<1, 0, 0, 1, 0, 0>> /\ geometry_raises(elem)

(***************************************************************************)
(* VIEWBOX NORMALIZATION                                                   *)
(***************************************************************************)
LEAF_TAGS == {"path", "rect", "circle", "ellipse", "line", "polyline",
              "polygon", "text", "image", "use"}

\* an offset that moves the element along x only
apply_offset_to_element_x_only(elem, offset_x, offset_y) ==
    apply_matrix_to_element(elem, <<1, 0, 0, 1, offset_x, 0>>)

apply_offset_to_element(elem, offset_x, offset_y) ==
    apply_matrix_to_element(elem, <<1, 0, 0, 1, offset_x, offset_y>>)

\* the elements of the subtrees of the given children (elem.iter() order)
RECURSIVE subtree_ids(_, _)
subtree_ids(elems, ids) ==
    IF ids = <<>> THEN <<>>
    ELSE <<Head(ids)>> \o subtree_ids(elems, elems[Head(ids)].children)
                       \o subtree_ids(elems, Tail(ids))

SeqToSet(q) == {q[i] : i \in 1..Len(q)}

\* a viewBox text that keeps the origin it had
zero_origin_viewbox_kept(viewbox) ==
    << <<PyStrFloat(viewbox.minX)>>, <<PyStrFloat(viewbox.minY)>>,
       <<PyStrFloat(viewbox.width)>>, <<PyStrFloat(viewbox.height)>> >>

\* the viewBox text "0 0 {width} {height}" of line 512
zero_origin_viewbox(viewbox) ==
    << <<"0">>, <<"0">>, <<PyStrFloat(viewbox.width)>>, <<PyStrFloat(viewbox.height)>> >>

\* lines 501-508: apply_to_subtree meets a leaf whose geometry float() rejects
normalize_viewbox_raises(doc, viewbox) ==
    /\ viewbox.minX # 0 \/ viewbox.minY # 0
    /\ \E i \in SeqToSet(subtree_ids(doc.elems, doc.root.children)) :
          doc.elems[i].tag \in LEAF_TAGS /\ geometry_raises(doc.elems[i])

\* lines 488-515 on the document [root, elems]
normalize_viewbox_offset(doc, viewbox) ==
    IF viewbox.minX = 0 /\ viewbox.minY = 0 THEN doc
    ELSE LET inside == SeqToSet(subtree_ids(doc.elems, doc.root.children))
         IN  [root |-> set_attr(doc.root, "viewBox", zero_origin_viewbox(viewbox)),
              elems |-> [i \in DOMAIN doc.elems |->
                           IF i \in inside /\ doc.elems[i].tag \in LEAF_TAGS
                           THEN apply_offset_to_element(doc.elems[i],
                                                        0 - viewbox.minX, 0 - viewbox.minY)
                           ELSE doc.elems[i]]]

(***************************************************************************)
(* CSS AND STYLE HANDLING                                                  *)
(* The text of a <style> element is the sequence of its ".name { ... }"    *)
(* rules (line 535), each [class_name, properties], properties the         *)
(* sequence of its <<key, value>> declarations (lines 539-544).            *)
(***************************************************************************)
EmptyMap == [k \in {} |-> k]

put(map, key, value) ==
    [k \in (DOMAIN map) \cup {key} |-> IF k = key THEN value ELSE map[k]]

CssKeys == {"fill", "stroke", "stroke-width", "opacity"}

\* lines 538-546
RECURSIVE rule_props(_, _)
rule_props(properties, props) ==
    IF properties = <<>> THEN props
    ELSE LET key == Head(properties)[1]
             value == Head(properties)[2]
         IN  rule_props(Tail(properties),
                        IF key \in CssKeys THEN put(props, key, value) ELSE props)

\* lines 537-549
RECURSIVE add_rules(_, _)
add_rules(rules, map) ==
    IF rules = <<>> THEN map
    ELSE LET props == rule_props(Head(rules).properties, EmptyMap)
         IN  add_rules(Tail(rules),
                       IF props # EmptyMap
                       THEN put(map, Head(rules).class_name, props)
                       ELSE map)

\* lines 529-551: ids is root.iter() below the root (the root is no <style>)
RECURSIVE style_blocks(_, _, _)
style_blocks(elems, ids, map) ==
    IF ids = <<>> THEN map
    ELSE LET e == elems[Head(ids)]
         IN  style_blocks(elems, Tail(ids),
                          IF e.tag = "style" /\ e.text # <<>>
                          THEN add_rules(e.text, map)
                          ELSE map)

parse_css_styles(doc) ==
    style_blocks(doc.elems, subtree_ids(doc.elems, doc.root.children), EmptyMap)

\* lines 565-573: returns <<fill, stroke, stroke_width>>, each Optional
RECURSIVE css_classes(_, _, _)
css_classes(classes, map, found) ==
    IF classes = <<>> THEN found
    ELSE LET cls == Head(classes)
             styles == map[cls]
             has(k) == k \in DOMAIN styles
         IN  css_classes(Tail(classes), map,
               IF cls \in DOMAIN map
               THEN << IF has("fill") /\ styles["fill"] # "none"
                       THEN Some(styles["fill"]) ELSE found[1],
                       IF has("stroke") /\ styles["stroke"] # "none"
                       THEN Some(styles["stroke"]) ELSE found[2],
                       IF has("stroke-width")
                       THEN Some(styles["stroke-width"]) ELSE found[3] >>
               ELSE found)

get_color_from_css(elem, map) ==
    IF ~ truthy_attr(elem, "class") THEN <<None, None, None>>
    ELSE css_classes(elem.attrs["class"], map, <<None, None, None>>)

(***************************************************************************)
(* GROUP FLATTENING WITH TRANSFORM BAKING                                  *)
(***************************************************************************)
StyleAttrs == <<"fill", "stroke", "stroke-width">>

\* lines 596-618
get_effective_style(elem, attr_name, inherited_value, map) ==
    LET css == get_color_from_css(elem, map)
        css_value == CASE attr_name = "fill" -> css[1]
                       [] attr_name = "stroke" -> css[2]
                       [] attr_name = "stroke-width" -> css[3]
                       [] OTHER -> None
        attr_value == get_attr(elem, attr_name)
    IN  IF truthy(css_value) THEN css_value
        ELSE IF truthy(attr_value) /\ attr_value[1] # "none" THEN attr_value
        ELSE IF truthy(inherited_value) /\ inherited_value[1] # "none"
             THEN inherited_value
        ELSE None

\* lines 630-638: the element's own matrix and its composition
elem_matrix_of(elem) ==
    IF truthy_attr(elem, "transform")
    THEN parse_transform_string(get_attr(elem, "transform"))
    ELSE identity_matrix

compose_inherited(inherited_matrix, elem_matrix) ==
    IF inherited_matrix # None
    THEN multiply_matrices(inherited_matrix[1], elem_matrix)
    ELSE elem_matrix

\* lines 646-654: bake the composed matrix into the leaf
bake_transform(elem, composed_matrix) ==
    IF composed_matrix # identity_matrix
    THEN apply_matrix_to_element(elem, composed_matrix)
    ELSE remove_transform(elem)

\* lines 656-662: write the effective styles
apply_effective_styles(elem, fill, stroke, stroke_width) ==
    LET e1 == IF truthy(fill) THEN set_attr(elem, "fill", fill[1]) ELSE elem
        e2 == IF truthy(stroke) THEN set_attr(e1, "stroke", stroke[1]) ELSE e1
    IN  IF truthy(stroke_width) THEN set_attr(e2, "stroke-width", stroke_width[1]) ELSE e2

\* lines 664-666
remove_class(elem) ==
    IF truthy_attr(elem, "class") THEN del_attr(elem, "class") ELSE elem

\* lines 645-668: what extract_leaves makes of a leaf element
flatten_leaf(elem, composed_matrix, fill, stroke, stroke_width) ==
    remove_class(apply_effective_styles(bake_transform(elem, composed_matrix),
                                        fill, stroke, stroke_width))

\* lines 630-631 and 646-649: a call of extract_leaves ends in a ValueError
extract_leaves_raises(elem, inherited_matrix) ==
    \/ truthy_attr(elem, "transform")
          /\ parse_transform_raises(get_attr(elem, "transform"))
    \/ elem.tag \in LEAF_TAGS
          /\ apply_matrix_raises(elem, compose_inherited(inherited_matrix,
                                                         elem_matrix_of(elem)))

(***************************************************************************)
(* UTILITY FUNCTIONS                                                       *)
(* The viewBox text is the sequence of its whitespace-separated parts,     *)
(* each the sequence of its comma-separated pieces: "1 2 3 4" is           *)
(* << <<"1">>, <<"2">>, <<"3">>, <<"4">> >>, "1,2,3,4" is                  *)
(* << <<"1","2","3","4">> >> and "1, 2, 3, 4" has parts <<"1","">>, ...    *)
(***************************************************************************)
RECURSIVE comma_pieces(_)
comma_pieces(parts) ==
    IF parts = <<>> THEN <<>>
    ELSE SelectSeq([i \in 1..Len(Head(parts)) |-> <<Head(parts)[i]>>],
                   LAMBDA p : p[1] # "")
         \o comma_pieces(Tail(parts))

\* lines 697-714, Optional result
parse_viewbox(viewbox_str) ==
    IF viewbox_str = None \/ viewbox_str[1] = <<>> THEN None
    ELSE LET split == viewbox_str[1]
             parts == IF Len(split) # 4 THEN comma_pieces(split) ELSE split
             is_float(part) == Len(part) = 1 /\ IsNumeric(part[1])
         IN  IF Len(parts) # 4 THEN None
             ELSE IF \E i \in 1..4 : ~ is_float(parts[i]) THEN None
             ELSE Some([minX |-> float(parts[1][1]), minY |-> float(parts[2][1]),
                        width |-> float(parts[3][1]), height |-> float(parts[4][1])])

DefaultViewBoxSize == 100

(***************************************************************************)
(* INPUT DOCUMENTS                                                         *)
(* A document is [root, elems]: the root <svg> element and the elements    *)
(* below it by id.                                                         *)
(***************************************************************************)
Elem(tag, attrs, children) ==
    [tag |-> tag, attrs |-> attrs, children |-> children, text |-> <<>>]

StyleElem(rules) ==
    [tag |-> "style", attrs |-> EmptyMap, children |-> <<>>, text |-> rules]

\* an attribute that may be absent
opt(name, value) == IF value = None THEN EmptyMap ELSE name :> value[1]

\* a transform text of one item
fn(name, args) == <<[name |-> name, args |-> args]>>

ViewBoxText(a, b, c, d) == << <<a>>, <<b>>, <<c>>, <<d>> >>

\* a chain of groups, outermost first, around one leaf; extra root children
\* (a <style> block) come first
ChainDoc(groups, leaf, viewBox, styles) ==
    LET d == Len(groups)
        n == Len(styles)
    IN  [root |-> Elem("svg", opt("viewBox", viewBox),
                       [i \in 1..(n + 1) |-> IF i <= n THEN d + 1 + i ELSE 1]),
         elems |-> [i \in 1..(d + 1 + n) |->
                      IF i <= d THEN Elem("g", groups[i], <<i + 1>>)
                      ELSE IF i = d + 1 THEN leaf
                      ELSE styles[i - d - 1]]]

\* --- documents that vary the style sources of one attribute ---
OwnValue(k) == IF k = "stroke-width" THEN "2" ELSE "red"

InlineValue(k) == IF k = "stroke-width" THEN "3" ELSE "blue"

CssValue(k) == IF k = "stroke-width" THEN "4" ELSE "#d9e9ff"

GroupValue(k, i) ==
    IF k = "stroke-width" THEN PyStrInt(4 + i) ELSE "green" \o ToString(i)

SamplePath == << [cmd |-> "M", params |-> <<"0", "0">>],
                 [cmd |-> "L", params |-> <<"2", "0">>],
                 [cmd |-> "L", params |-> <<"2", "2">>],
                 [cmd |-> "Z", params |-> <<>>] >>

\* the class of the outermost group, the class of the leaf and the value of
\* the .water rule; no classes without a rule
ClassSources(k) ==
    { <<FALSE, None, None>> }
    \cup (BOOLEAN \X {None, Some(<<"water">>)} \X {Some("none"), Some(CssValue(k))})

StyleDocsOf(k) ==
    { ChainDoc([i \in 1..Len(gs) |->
                   opt(k, IF gs[i] = "value" THEN Some(GroupValue(k, i))
                          ELSE IF gs[i] = "none" THEN Some("none") ELSE None)
                   @@ (IF i = 1 /\ cs[1] THEN "class" :> <<"water">> ELSE EmptyMap)],
               Elem("path",
                    ("d" :> SamplePath) @@ opt(k, own) @@ opt("style", inline)
                      @@ opt("class", cs[2]),
                    <<>>),
               None,
               IF cs[3] = None THEN <<>>
               ELSE << StyleElem(<< [class_name |-> "water",
                                     properties |-> << <<k, cs[3][1]>> >>] >>) >>) :
        gs \in UNION {[1..d -> {"absent", "none", "value"}] : d \in 0..MaxDepth},
        own \in {None, Some("none"), Some(OwnValue(k))},
        inline \in {None, Some(<< <<k, InlineValue(k)>> >>)},
        cs \in ClassSources(k) }

StyleDocs == UNION {StyleDocsOf(k) : k \in {"fill", "stroke", "stroke-width"}}

\* --- documents that vary the transforms along a chain of groups ---
ChainTransforms ==
    { None,
      Some(fn("translate", <<"1", "0">>)),
      Some(fn("scale", <<"2">>)),
      Some(fn("rotate", <<"90">>)),
      Some(fn("scale", <<"2">>) \o fn("translate", <<"1", "0">>)) }

ChainLeaves ==
    { Elem("polygon", "points" :> <<"0", "0", "1", "0", "0", "1">>, <<>>),
      Elem("line", ("x1" :> "0") @@ ("y1" :> "1") @@ ("x2" :> "2") @@ ("y2" :> "3"),
           <<>>) }

WithAttrs(elem, attrs) == [elem EXCEPT !.attrs = attrs @@ elem.attrs]

TransformChainDocs ==
    { ChainDoc([i \in 1..Len(ts) |-> opt("transform", ts[i])],
               WithAttrs(leaf, opt("transform", t)),
               Some(ViewBoxText("0", "0", "10", "10")), <<>>) :
        ts \in UNION {[1..d -> ChainTransforms] : d \in 0..MaxDepth},
        t \in ChainTransforms,
        leaf \in ChainLeaves }

\* --- documents that vary the kind of leaf, its transform and the viewBox ---
cmd(letter, params) == [cmd |-> letter, params |-> params]

AbsolutePath ==
    << cmd("M", <<"1", "1">>), cmd("L", <<"3", "1", "3", "2">>),
       cmd("C", <<"1", "2", "3", "4", "5", "6">>), cmd("S", <<"1", "2", "3", "4">>),
       cmd("Q", <<"4", "3", "2", "1">>), cmd("T", <<"0", "2">>),
       cmd("A", <<"1", "2", "0", "1", "0", "5", "5">>), cmd("Z", <<>>) >>

RelativePath ==
    << cmd("m", <<"1", "1">>), cmd("l", <<"2", "0">>), cmd("h", <<"3">>),
       cmd("v", <<"1">>), cmd("H", <<"2">>), cmd("V", <<"4">>),
       cmd("q", <<"1", "0", "1", "1">>), cmd("z", <<>>) >>

KindLeaves ==
    { Elem("path", "d" :> AbsolutePath, <<>>),
      Elem("path", "d" :> RelativePath, <<>>),
      Elem("rect", ("x" :> "3") @@ ("y" :> "4") @@ ("width" :> "1") @@ ("height" :> "2"),
           <<>>),
      Elem("rect", ("width" :> "1") @@ ("height" :> "2"), <<>>),
      Elem("circle", ("cx" :> "1") @@ ("cy" :> "3") @@ ("r" :> "2"), <<>>),
      Elem("ellipse", ("cx" :> "1") @@ ("cy" :> "3") @@ ("rx" :> "2") @@ ("ry" :> "1"),
           <<>>),
      Elem("line", ("x1" :> "0") @@ ("y1" :> "1") @@ ("x2" :> "2") @@ ("y2" :> "3"),
           <<>>),
      Elem("polyline", "points" :> <<"0", "0", "1", "2", "3", "1">>, <<>>),
      Elem("polygon", "points" :> <<"0", "0", "1", "0", "0", "1">>, <<>>),
      Elem("text", ("x" :> "1") @@ ("y" :> "3"), <<>>),
      Elem("text", "x" :> "1", <<>>),
      Elem("use", ("x" :> "1") @@ ("y" :> "3"), <<>>),
      Elem("image", ("x" :> "1") @@ ("y" :> "3") @@ ("width" :> "4") @@ ("height" :> "4"),
           <<>>) }

KindTransforms ==
    { None, Some(<<>>),
      Some(fn("translate", <<"1", "2">>)),
      Some(fn("translate", <<"-1", "-2">>)),
      Some(fn("scale", <<"2">>)),
      Some(fn("scale", <<"1", "2">>)) }

KindViewBoxes ==
    { None, Some(ViewBoxText("0", "0", "10", "10")),
      Some(ViewBoxText("1", "2", "10", "20")) }

KindDocs ==
    { ChainDoc([i \in 1..Len(ts) |-> opt("transform", ts[i])],
               WithAttrs(leaf, opt("transform", t) @@ opt("stroke-width", sw)),
               vb, <<>>) :
        ts \in UNION {[1..d -> KindTransforms] : d \in 0..1},
        t \in KindTransforms,
        leaf \in KindLeaves,
        vb \in KindViewBoxes,
        sw \in {None, Some("2")} }

\* --- documents that vary the shape of the tree ---
MaxNodes == 3      \* elements below the root

RECURSIVE sorted_ids(_)
sorted_ids(S) ==
    IF S = {} THEN <<>>
    ELSE LET m == CHOOSE x \in S : \A y \in S : x <= y
         IN  <<m>> \o sorted_ids(S \ {m})

TreeTags == {"g", "text", "tspan"}

TreeAttrs(tag) ==
    ("class" :> <<"c">>) @@ ("transform" :> fn("translate", <<"1", "0">>))
    @@ (IF tag = "text" THEN ("x" :> "1") @@ ("y" :> "3") ELSE EmptyMap)

\* parent[i] < i is the parent of element i, 0 the root
TreeDoc(parent, tags, viewBox) ==
    LET kids(p) == sorted_ids({i \in DOMAIN parent : parent[i] = p})
    IN  [root |-> Elem("svg", "viewBox" :> viewBox, kids(0)),
         elems |-> [i \in DOMAIN parent |->
                      Elem(tags[i], TreeAttrs(tags[i]), kids(i))]]

TreeDocsOf(n) ==
    { TreeDoc(parent, tags, viewBox) :
        parent \in {p \in [1..n -> 0..(n - 1)] : \A i \in 1..n : p[i] < i},
        tags \in [1..n -> TreeTags],
        viewBox \in {ViewBoxText("0", "0", "10", "10"), ViewBoxText("1", "2", "10", "20")} }

TreeDocs == UNION {TreeDocsOf(n) : n \in 1..MaxNodes}

\* --- documents that vary the viewBox text ---
SampleRect ==
    Elem("rect", ("x" :> "3") @@ ("y" :> "4") @@ ("width" :> "1") @@ ("height" :> "2"),
         <<>>)

ViewBoxTexts ==
    { None, Some(<<>>),
      Some(ViewBoxText("0", "0", "10", "20")),
      Some(ViewBoxText("1", "2", "10", "20")),
      Some(<< <<"1", "2", "10", "20">> >>),                           \* "1,2,10,20"
      Some(<< <<"1", "">>, <<"2", "">>, <<"10", "">>, <<"20">> >>),   \* "1, 2, 10, 20"
      Some(<< <<"1">>, <<"2">>, <<"10">> >>),                         \* "1 2 10"
      Some(ViewBoxText("0", "0", "wide", "20")) }

ViewBoxDocs ==
    { ChainDoc(<<>>, WithAttrs(SampleRect, opt("transform", t)), vb, <<>>) :
        t \in {None, Some(fn("translate", <<"1", "2">>))},
        vb \in ViewBoxTexts }

\* --- documents that put a leaf into containers other than <g> ---
ContainerTags == {"g", "a", "svg"}

ContainerDocs ==
    { [root |-> Elem("svg", "viewBox" :> ViewBoxText("0", "0", "10", "10"), <<1, 2>>),
       elems |-> << Elem(outer, EmptyMap, <<3>>),
                    Elem("circle", ("cx" :> "1") @@ ("cy" :> "3") @@ ("r" :> "2"), <<>>),
                    Elem(inner, EmptyMap, <<4>>),
                    SampleRect >>] :
        outer \in ContainerTags, inner \in ContainerTags }

\* --- documents that turn and mirror a rect ---
RectTransforms ==
    { fn("rotate", <<"90">>), fn("rotate", <<"180">>), fn("scale", <<"-1", "1">>),
      fn("scale", <<"2", "3">>), fn("skewX", <<"45">>),
      fn("matrix", <<"0", "1", "1", "0", "5", "6">>) }

RectDocs ==
    { ChainDoc(<< opt("transform", gt) >>,
               WithAttrs(rect, "transform" :> t),
               Some(ViewBoxText("0", "0", "10", "10")), <<>>) :
        gt \in {None, Some(fn("translate", <<"1", "2">>))},
        t \in RectTransforms,
        rect \in { SampleRect,
                   Elem("rect", ("x" :> "0") @@ ("y" :> "0") @@ ("width" :> "10")
                                  @@ ("height" :> "10"), <<>>) } }

\* --- documents with a text float() rejects in one element ---
AnomalyLeaves ==
    { WithAttrs(SampleRect, "x" :> "10px"),
      WithAttrs(SampleRect, "stroke-width" :> "2px"),
      Elem("circle", ("cx" :> "1") @@ ("cy" :> "3") @@ ("r" :> "abc"), <<>>),
      Elem("path", "d" :> << cmd("M", <<"1.2.3", "4">>), cmd("L", <<"5", "6">>) >>, <<>>),
      Elem("path", "d" :> << cmd("M", <<"1", "4">>), cmd("Z", <<"1.2.3">>) >>, <<>>),
      Elem("polygon", "points" :> <<"0", "0", "1.2.3", "4", "1", "1">>, <<>>),
      Elem("text", ("x" :> "1em") @@ ("y" :> "3"), <<>>),
      SampleRect }

AnomalyTransforms ==
    { None, Some(fn("translate", <<"1", "2">>)),
      Some(fn("translate", <<"1.2.3", "2">>)),
      Some(fn("perspective", <<"1.2.3">>)) }

\* the odd element comes first, an ordinary circle after it
AnomalyDocs ==
    { [root |-> Elem("svg", "viewBox" :> vb, <<1>>),
       elems |-> << Elem("g", opt("transform", t), <<2, 3>>),
                    leaf,
                    Elem("circle", ("cx" :> "1") @@ ("cy" :> "3") @@ ("r" :> "2"),
                         <<>>) >>] :
        t \in AnomalyTransforms,
        leaf \in AnomalyLeaves,
        vb \in {ViewBoxText("0", "0", "10", "10"), ViewBoxText("1", "2", "10", "20")} }

Documents ==
    StyleDocs \cup TransformChainDocs \cup KindDocs \cup TreeDocs \cup ViewBoxDocs
    \cup ContainerDocs \cup RectDocs \cup AnomalyDocs

\* the transform texts handed to parse_transform_string on its own
TransformItems ==
    { fn("translate", <<"1", "2">>)[1], fn("Translate", <<"3">>)[1],
      fn("scale", <<"2">>)[1], fn("scale", <<"2", "3">>)[1],
      fn("rotate", <<"90">>)[1], fn("rotate", <<"90", "1", "2">>)[1],
      fn("skewX", <<"45">>)[1], fn("skewY", <<"45">>)[1],
      fn("matrix", <<"1", "2", "3", "4", "5", "6">>)[1],
      fn("matrix", <<"1", "2", "3">>)[1],
      fn("perspective", <<"2">>)[1], fn("xscale", <<"2">>)[1],
      fn("translate", <<>>)[1] }

TransformTexts == UNION {[1..n -> TransformItems] : n \in 0..MaxLen}

(***************************************************************************)
(* MAIN: the state machine                                                 *)
(***************************************************************************)
VARIABLES
    pc,             \* where main() is
    pass,           \* 1: the run on the input, 2: the run on its own output
    root,           \* the root element
    elems,          \* the elements below the root, by id
    style_map,      \* main's style_map
    viewbox,        \* main's viewbox dict
    stack,          \* the pending calls of extract_leaves, innermost first
    leaf_elements,  \* flatten_groups' leaf_elements (ids)
    visit,          \* per visited element: fill, stroke, stroke_width,
                    \* composed_matrix as extract_leaves computed them
    source,         \* the input document
    first,          \* the document the first run wrote
    transform_str,  \* the argument of a parse_transform_string call
    result,         \* and its result
    leaf_count,     \* main's leaf_count, the value flatten_groups returned
    args,           \* the arguments of a call of a matrix or path function
    commands,       \* transform_path_d: the commands the loop has yet to take
    current_x,      \* transform_path_d's current_x
    current_y,      \* and current_y
    path_result,    \* transform_path_d's result list
    exit_code,      \* crop_svg: the exit status, once the process has ended
    stdout,         \* crop_svg: what was printed to standard output
    stderr,         \* crop_svg: what was printed to standard error
    counts          \* crop_svg: stroke_count, fill_count, line_count

\* the locals of transform_path_d and the arguments of a function called alone
call_vars == << args, commands, current_x, current_y, path_result >>

\* the streams, the exit status and the counters of crop_svg's main
crop_vars == << exit_code, stdout, stderr, counts >>

vars == << pc, pass, root, elems, style_map, viewbox, stack, leaf_elements,
           visit, source, first, transform_str, result, leaf_count, call_vars,
           crop_vars >>

NoViewbox == [minX |-> 0, minY |-> 0, width |-> 0, height |-> 0]

\* no matrix or path function is being called alone
NoCall ==
    /\ args = <<>>
    /\ commands = <<>>
    /\ current_x = 0
    /\ current_y = 0
    /\ path_result = <<>>

\* crop_svg is not running
NoCrop ==
    /\ exit_code = None
    /\ stdout = <<>>
    /\ stderr = <<>>
    /\ counts = [stroke_count |-> 0, fill_count |-> 0, line_count |-> 0]

\* main() is not running
NoDocument ==
    /\ pass = 1
    /\ root = Elem("svg", EmptyMap, <<>>)
    /\ elems = <<>>
    /\ source = [root |-> Elem("svg", EmptyMap, <<>>), elems |-> <<>>]
    /\ style_map = EmptyMap
    /\ viewbox = NoViewbox
    /\ stack = <<>>
    /\ leaf_elements = <<>>
    /\ visit = EmptyMap
    /\ first = None
    /\ leaf_count = 0

Init ==
    /\ \E doc \in Documents :
          /\ root = doc.root
          /\ elems = doc.elems
          /\ source = doc
    /\ pc = "start"
    /\ pass = 1
    /\ style_map = EmptyMap
    /\ viewbox = NoViewbox
    /\ stack = <<>>
    /\ leaf_elements = <<>>
    /\ visit = EmptyMap
    /\ first = None
    /\ transform_str = None
    /\ result = None
    /\ leaf_count = 0
    /\ NoCall
    /\ NoCrop

\* lines 766-790: parse, read the styles and the viewBox, set width/height
Setup ==
    /\ pc = "start"
    /\ LET parsed == parse_viewbox(get_attr(root, "viewBox"))
           width == IF parsed = None THEN PyStrInt(DefaultViewBoxSize)
                    ELSE PyStrFloat(parsed[1].width)
           height == IF parsed = None THEN PyStrInt(DefaultViewBoxSize)
                     ELSE PyStrFloat(parsed[1].height)
       IN  /\ viewbox' = IF parsed = None
                         THEN [minX |-> 0, minY |-> 0, width |-> DefaultViewBoxSize,
                               height |-> DefaultViewBoxSize]
                         ELSE parsed[1]
           /\ root' = set_attr(set_attr(root, "width", width), "height", height)
    /\ style_map' = parse_css_styles([root |-> root, elems |-> elems])
    /\ pc' = "flatten"
    /\ UNCHANGED << pass, elems, stack, leaf_elements, visit, source, first,
                    transform_str, result, leaf_count, call_vars,
                    crop_vars >>

\* a call extract_leaves(elem, fill, stroke, stroke_width, matrix)
Call(id, fill, stroke, stroke_width, matrix) ==
    [elem |-> id, inherited_fill |-> fill, inherited_stroke |-> stroke,
     inherited_stroke_width |-> stroke_width, inherited_matrix |-> matrix]

\* lines 593-594, 671-672: the calls on the root's children
FlattenStart ==
    /\ pc = "flatten"
    /\ leaf_elements' = <<>>
    /\ visit' = EmptyMap
    /\ stack' = [i \in 1..Len(root.children) |->
                    Call(root.children[i], None, None, None, None)]
    /\ pc' = "extract"
    /\ UNCHANGED << pass, root, elems, style_map, viewbox, source, first,
                    transform_str, result, leaf_count, call_vars,
                    crop_vars >>

\* lines 620-668: one call of extract_leaves; a ValueError it raises unwinds
\* flatten_groups and main to the handler of lines 824-828, which prints the
\* error and exits with status 1 without writing a document
ExtractLeaves ==
    /\ pc = "extract"
    /\ stack # <<>>
    /\ LET call == Head(stack)
           elem == elems[call.elem]
           fill == get_effective_style(elem, "fill", call.inherited_fill, style_map)
           stroke == get_effective_style(elem, "stroke", call.inherited_stroke, style_map)
           stroke_width == get_effective_style(elem, "stroke-width",
                                               call.inherited_stroke_width, style_map)
           composed_matrix == compose_inherited(call.inherited_matrix, elem_matrix_of(elem))
       IN  IF extract_leaves_raises(elem, call.inherited_matrix)
           THEN /\ pc' = "error"
                /\ UNCHANGED << visit, stack, elems, leaf_elements >>
           ELSE /\ pc' = pc
                /\ visit' = put(visit, call.elem,
                                [fill |-> fill, stroke |-> stroke,
                                 stroke_width |-> stroke_width,
                                 composed_matrix |-> composed_matrix])
                /\ stack' = IF elem.tag = "g"
                            THEN [i \in 1..Len(elem.children) |->
                                     Call(elem.children[i], fill, stroke, stroke_width,
                                          Some(composed_matrix))] \o Tail(stack)
                            ELSE Tail(stack)
                /\ elems' = IF elem.tag \in LEAF_TAGS
                            THEN [elems EXCEPT ![call.elem] =
                                    flatten_leaf(elem, composed_matrix, fill, stroke,
                                                 stroke_width)]
                            ELSE elems
                /\ leaf_elements' = IF elem.tag \in LEAF_TAGS
                                    THEN Append(leaf_elements, call.elem)
                                    ELSE leaf_elements
    /\ UNCHANGED << pass, root, style_map, viewbox, source, first,
                    transform_str, result, leaf_count, call_vars,
                    crop_vars >>

\* the leaves put in front of one another instead of appended
replace_children_reversed(elem, leaves) ==
    [elem EXCEPT !.children = [i \in 1..Len(leaves) |-> leaves[Len(leaves) + 1 - i]]]

\* lines 671-677: every child removed, then every leaf appended
replace_children(elem, leaves) ==
    [elem EXCEPT !.children = leaves]

\* lines 670-690: the leaves replace the root's children; the count returned
FlattenFinish ==
    /\ pc = "extract"
    /\ stack = <<>>
    /\ root' = replace_children(root, leaf_elements)
    /\ leaf_count' = Len(leaf_elements)
    /\ pc' = "offset"
    /\ UNCHANGED << pass, elems, style_map, viewbox, stack, leaf_elements, visit,
                    source, first, transform_str, result, call_vars,
                    crop_vars >>

\* lines 796-818: the viewBox offset, then the output; a ValueError ends the
\* run as above
ViewboxOffset ==
    /\ pc = "offset"
    /\ LET doc == [root |-> root, elems |-> elems]
       IN  IF normalize_viewbox_raises(doc, viewbox)
           THEN /\ pc' = "error"
                /\ UNCHANGED << root, elems >>
           ELSE LET out == IF viewbox.minX # 0 \/ viewbox.minY # 0
                           THEN normalize_viewbox_offset(doc, viewbox)
                           ELSE doc
                IN  /\ root' = out.root
                    /\ elems' = out.elems
                    /\ pc' = "done"
    /\ UNCHANGED << pass, style_map, viewbox, stack, leaf_elements, visit, source,
                    first, transform_str, result, leaf_count, call_vars,
                    crop_vars >>

\* lines 746-766 again: the program reads the document it wrote
Rerun ==
    /\ pc = "done"
    /\ pass = 1
    /\ first' = Some([root |-> root, elems |-> elems, visit |-> visit])
    /\ pass' = 2
    /\ pc' = "start"
    /\ UNCHANGED << root, elems, style_map, viewbox, stack, leaf_elements, visit,
                    source, transform_str, result, leaf_count, call_vars,
                    crop_vars >>

Next ==
    \/ Setup
    \/ FlattenStart
    \/ ExtractLeaves
    \/ FlattenFinish
    \/ ViewboxOffset
    \/ Rerun

Spec == Init /\ [][Next]_vars

(***************************************************************************)
(* parse_transform_string on its own                                       *)
(***************************************************************************)
InitParse ==
    /\ transform_str \in {None} \cup {Some(t) : t \in TransformTexts}
    /\ result = None
    /\ pc = "call"
    /\ NoDocument
    /\ NoCall
    /\ NoCrop

ParseTransform ==
    /\ pc = "call"
    /\ result' = Some(parse_transform_string(transform_str))
    /\ pc' = "returned"
    /\ UNCHANGED << pass, root, elems, style_map, viewbox, stack, leaf_elements,
                    visit, source, first, transform_str, leaf_count, call_vars,
                    crop_vars >>

SpecParse == InitParse /\ [][ParseTransform]_vars

(***************************************************************************)
(* multiply_matrices on its own                                            *)
(***************************************************************************)
MatrixSamples ==
    { <<1, 0, 0, 1, 0, 0>>, <<1, 0, 0, 1, 1, 2>>, <<2, 0, 0, 3, 0, 0>>,
      <<0, 1, 0 - 1, 0, 0, 0>>, <<1, 0, 1, 1, 0, 0>>, <<0 - 1, 0, 0, 1, 4, 0>>,
      <<1, 2, 3, 4, 5, 6>> }

InitMatrix ==
    /\ args \in MatrixSamples \X MatrixSamples \X MatrixSamples
    /\ commands = <<>>
    /\ current_x = 0
    /\ current_y = 0
    /\ path_result = <<>>
    /\ transform_str = None
    /\ result = None
    /\ pc = "call"
    /\ NoDocument
    /\ NoCrop

\* the products of A = args[1], B = args[2], C = args[3]
MultiplyMatrices ==
    /\ pc = "call"
    /\ result' = Some([ab |-> multiply_matrices(args[1], args[2]),
                       ab_c |-> multiply_matrices(multiply_matrices(args[1], args[2]),
                                                  args[3]),
                       a_bc |-> multiply_matrices(args[1],
                                                  multiply_matrices(args[2], args[3]))])
    /\ pc' = "returned"
    /\ UNCHANGED << pass, root, elems, style_map, viewbox, stack, leaf_elements,
                    visit, source, first, transform_str, leaf_count, call_vars,
                    crop_vars >>

SpecMatrix == InitMatrix /\ [][MultiplyMatrices]_vars

(***************************************************************************)
(* transform_path_d on its own: the loop of lines 170-320, one command a   *)
(* step.  args = <<d, matrix>>; commands holds the matches not yet         *)
(* handled, path_result the pieces appended so far.                        *)
(***************************************************************************)
MaxCmds == 2       \* commands after the first one of a generated path

StartItems == { cmd("M", <<"0", "0">>), cmd("m", <<"1", "2">>) }

PathItems ==
    { cmd("L", <<"10", "0">>), cmd("l", <<"1", "1", "2", "0">>),
      cmd("m", <<"3", "1">>), cmd("t", <<"1", "2">>), cmd("T", <<"4", "2">>),
      cmd("c", <<"1", "0", "2", "1", "3", "3">>),
      cmd("s", <<"1", "2", "3", "4", "0", "1", "1", "1">>),
      cmd("Q", <<"4", "3", "2", "1">>), cmd("q", <<"1", "0", "1", "1">>),
      cmd("h", <<"3">>), cmd("H", <<"2", "5">>),
      cmd("v", <<"1", "2">>), cmd("V", <<"4">>),
      cmd("a", <<"1", "2", "0", "1", "0", "5", "5">>),
      cmd("A", <<"2", "1", "90", "0", "1", "3", "4", "1", "1", "0", "1", "1", "7", "8">>),
      cmd("Z", <<>>), cmd("z", <<>>),
      cmd("l", <<>>), cmd("L", <<"5">>), cmd("L", <<"1.2.3", "4">>) }

ExamplePath ==
    << cmd("M", <<"0", "0">>), cmd("L", <<"10", "0">>), cmd("L", <<"10", "10">>),
       cmd("Z", <<>>) >>

PathTexts ==
    {<<>>, ExamplePath}
    \cup { <<start>> \o rest :
             start \in StartItems,
             rest \in UNION {[1..n -> PathItems] : n \in 0..MaxCmds} }

PathMatrices ==
    { <<1, 0, 0, 1, 0, 0>>, <<1, 0, 0, 1, 5, 5>>, <<2, 0, 0, 3, 0, 0>>,
      <<0 - 1, 0, 0, 1, 0, 0>>, <<0, 1, 0 - 1, 0, 0, 0>>, <<0, 1, 1, 0, 1, 0>>,
      <<2, 0, 0, 0, 0, 0>> }

\* the state after line 168
InitPath ==
    /\ args \in PathTexts \X PathMatrices
    /\ commands = args[1]
    /\ current_x = 0
    /\ current_y = 0
    /\ path_result = <<>>
    /\ transform_str = None
    /\ result = None
    /\ pc = "call"
    /\ NoDocument
    /\ NoCrop

\* lines 170-320: one turn of the loop
PathStep ==
    /\ pc = "call"
    /\ commands # <<>>
    /\ IF transform_path_raises(<<Head(commands)>>)
       THEN /\ pc' = "error"
            /\ UNCHANGED << commands, current_x, current_y, path_result >>
       ELSE LET r == path_command(Head(commands), args[2], current_x, current_y)
            IN  /\ path_result' = Append(path_result, r[1])
                /\ current_x' = r[2]
                /\ current_y' = r[3]
                /\ commands' = Tail(commands)
                /\ pc' = pc
    /\ UNCHANGED << pass, root, elems, style_map, viewbox, stack, leaf_elements,
                    visit, source, first, transform_str, result, leaf_count, args,
                    crop_vars >>

\* lines 158-159 and 322
PathReturn ==
    /\ pc = "call"
    /\ commands = <<>>
    /\ result' = Some(path_result)
    /\ pc' = "returned"
    /\ UNCHANGED << pass, root, elems, style_map, viewbox, stack, leaf_elements,
                    visit, source, first, transform_str, leaf_count, call_vars,
                    crop_vars >>

NextPath == PathStep \/ PathReturn

SpecPath == InitPath /\ [][NextPath]_vars

(***************************************************************************)
(* crop_svg.py                                                             *)
(* An inline style text is the sequence of its "name:value" declarations,  *)
(* names and values without surrounding blanks; no modelled name or value  *)
(* holds the text "fill:" or "stroke:" inside it.  A text that is read as  *)
(* XML (standard input, the tool's output) is [xml |-> TRUE, doc |-> ...]  *)
(* when it is well-formed and [xml |-> FALSE, text |-> ...] when not.      *)
(***************************************************************************)
UsageExitStatus == 1      \* line 17
ToolExitStatus == 1       \* line 147
ErrorExitStatus == 1      \* line 172

SHAPE_TAGS == {"path", "polygon", "rect", "circle", "ellipse", "polyline"}

\* 'name:' in style
in_style(style, name) == \E i \in 1..Len(style) : style[i][1] = name

\* style.split('name:')[1].split(';')[0].strip(): the value of the first
\* declaration of that name
style_match(style, name) ==
    style[CHOOSE i \in 1..Len(style) :
             /\ style[i][1] = name
             /\ \A j \in 1..(i - 1) : style[j][1] # name][2]

\* lines 72-89 for name = 'fill' or 'stroke': the inline style entry when the
\* style names the property, the attribute otherwise
detected(elem, name) ==
    LET attr == get_attr_default(elem, name, "")
        style == get_attr_default(elem, "style", <<>>)
    IN  IF in_style(style, name)
        THEN style_match(style, name) \notin {"", "none"}
        ELSE attr \notin {"", "none"}

\* lines 94-96
fill_color(elem) ==
    LET fill_attr == get_attr_default(elem, "fill", "")
        style == get_attr_default(elem, "style", <<>>)
    IN  IF in_style(style, "fill") THEN style_match(style, "fill")
        ELSE IF fill_attr \notin {"", "none"} THEN fill_attr
        ELSE "#000000"

\* lines 97-105: stroke, stroke-width and fill are set; the declarations
\* that start with 'fill:' are dropped from a style that is not empty
fill_to_stroke(elem) ==
    LET style == get_attr_default(elem, "style", <<>>)
        set == set_attr(set_attr(set_attr(elem, "stroke", fill_color(elem)),
                                 "stroke-width", "1"),
                        "fill", "none")
    IN  IF style # <<>>
        THEN set_attr(set, "style", SelectSeq(style, LAMBDA part : part[1] # "fill"))
        ELSE set

\* lines 41-57: the number before the unit and the factor it is multiplied by
DimensionUnits == <<"px", "pt", "in", "mm", "cm">>

DimensionFactor ==
    ("px" :> "1") @@ ("pt" :> "1.333333") @@ ("in" :> "96")
    @@ ("mm" :> "3.7795275591") @@ ("cm" :> "37.795275591")

\* val.endswith(unit), for the texts "10" and "wide" before the unit
ends_with(val, unit) == \E body \in {"10", "wide"} : val = body \o unit

\* val[:-2]
body_of(val, unit) == CHOOSE body \in {"10", "wide"} : val = body \o unit

\* float(val[:-2]) raises for a unit after something that is no number
parse_dimension_raises(val) ==
    \E i \in 1..Len(DimensionUnits) :
        /\ ends_with(val, DimensionUnits[i])
        /\ \A j \in 1..(i - 1) : ~ ends_with(val, DimensionUnits[j])
        /\ ~ IsNumeric(body_of(val, DimensionUnits[i]))

parse_dimension(val) ==
    IF \E i \in 1..Len(DimensionUnits) : ends_with(val, DimensionUnits[i])
    THEN LET unit == DimensionUnits[CHOOSE i \in 1..Len(DimensionUnits) :
                                       /\ ends_with(val, DimensionUnits[i])
                                       /\ \A j \in 1..(i - 1) :
                                             ~ ends_with(val, DimensionUnits[j])]
         IN  [number |-> float(body_of(val, unit)), times |-> DimensionFactor[unit]]
    ELSE IF IsNumeric(val) THEN [number |-> float(val), times |-> "1"]
    ELSE [number |-> 0, times |-> "1"]

\* one line printed to a stream
Line(msg, detail) == [msg |-> msg, detail |-> detail]

\* lines 168-172: the handler of an exception that left main()
Handled(printed, message) ==
    /\ stderr' = stderr \o printed
                  \o << Line("Python: ERROR - ", <<message>>), Line("Traceback", <<>>) >>
    /\ exit_code' = Some(ErrorExitStatus)
    /\ pc' = "exited"

\* --- the inputs of crop_svg ---
CropShape(tag, fill, stroke, style) ==
    Elem(tag, opt("fill", fill) @@ opt("stroke", stroke) @@ opt("style", style), <<>>)

StyleTexts ==
    { None,
      Some(<< <<"fill", "green">> >>),
      Some(<< <<"fill", "none">> >>),
      Some(<< <<"fill", "">> >>),
      Some(<< <<"stroke", "none">> >>),
      Some(<< <<"stroke", "black">> >>),
      Some(<< <<"fill", "green">>, <<"stroke", "none">> >>),
      Some(<< <<"stroke-width", "2">>, <<"fill", "green">>, <<"fill", "none">> >>),
      Some(<< <<"opacity", "1">> >>) }

CropDocument(width, children, below) ==
    [root |-> Elem("svg", opt("width", width) @@ ("height" :> "50"), children),
     elems |-> below]

\* one shape with every combination of fill, stroke and inline style
ShapeDocs ==
    { CropDocument(Some("100"), <<1>>, << CropShape(tag, fill, stroke, style) >>) :
        tag \in {"rect", "path"},
        fill \in {None, Some(""), Some("none"), Some("red")},
        stroke \in {None, Some("none"), Some("blue")},
        style \in StyleTexts }

\* a group with a filled shape, a line, a text and a stroked shape
GroupDocs ==
    { CropDocument(Some("100"), <<1, 5>>,
                   << Elem("g", "fill" :> "red", <<2, 3, 4>>),
                      CropShape(tag, Some("red"), None, style),
                      Elem("line", "stroke" :> "blue", <<>>),
                      Elem("text", "fill" :> "red", <<>>),
                      CropShape("circle", None, Some("blue"), None) >>) :
        tag \in SHAPE_TAGS,
        style \in {None, Some(<< <<"stroke", "none">> >>)} }

\* the width attribute of the root in its forms
DimensionDocs ==
    { CropDocument(width, <<1>>, << CropShape("rect", Some("red"), None, None) >>) :
        width \in {None, Some("10"), Some("10px"), Some("10mm"), Some("wide"),
                   Some("widepx")} }

\* sys.argv[1:]
CropArguments ==
    { <<"0", "0", "10">>, <<"1", "2", "10", "20">>, <<"1", "2", "10", "abc">> }

CropInputs ==
    { [xml |-> TRUE, doc |-> doc] : doc \in ShapeDocs \cup GroupDocs \cup DimensionDocs }
    \cup { [xml |-> FALSE, text |-> "<svg"] }

\* what the external tool can answer: its exit status, its two streams
ToolResults ==
    { [returncode |-> rc, stdout |-> out, stderr |-> err] :
        rc \in {0, 1, 2},
        out \in { [xml |-> TRUE, doc |-> CropDocument(None, <<>>, <<>>)],
                  [xml |-> FALSE, text |-> ""] },
        err \in {"", "vpype: error"} }

(***************************************************************************)
(* crop_svg's main: args = [argv, stdin]                                   *)
(***************************************************************************)
InitCrop ==
    /\ args \in [argv : CropArguments, stdin : CropInputs]
    /\ commands = <<>>
    /\ current_x = 0
    /\ current_y = 0
    /\ path_result = <<>>
    /\ transform_str = None
    /\ result = None
    /\ pc = "start"
    /\ NoDocument
    /\ NoCrop

\* lines 15-23: the argument count, then float() of the four arguments
CropArgs ==
    /\ pc = "start"
    /\ IF Len(args.argv) < 4
       THEN /\ stderr' = Append(stderr, Line("Usage: crop_svg.py <x> <y> <width> <height>",
                                             <<>>))
            /\ exit_code' = Some(UsageExitStatus)
            /\ pc' = "exited"
       ELSE IF \E i \in 1..4 : ~ IsNumeric(args.argv[i])
       THEN Handled(<<>>, "could not convert string to float")
       ELSE /\ pc' = "parse"
            /\ UNCHANGED << stderr, exit_code >>
    /\ UNCHANGED << pass, root, elems, style_map, viewbox, stack, leaf_elements,
                    visit, source, first, transform_str, result, leaf_count,
                    call_vars, stdout, counts >>

\* the crop bounds as f'{x}' writes them
CropBounds == [i \in 1..4 |-> PyStrFloat(float(args.argv[i]))]

\* lines 26-61: read and parse the document, read its dimensions
CropRead ==
    /\ pc = "parse"
    /\ LET printed == << Line("Python: Received SVG", <<>>),
                         Line("Python: Crop region", CropBounds) >>
       IN  IF ~ args.stdin.xml
           THEN /\ Handled(printed, "not well-formed")
                /\ UNCHANGED << root, elems, source, stack >>
           ELSE LET doc == args.stdin.doc
                    width == get_attr_default(doc.root, "width", "0")
                    height == get_attr_default(doc.root, "height", "0")
                IN  /\ root' = doc.root
                    /\ elems' = doc.elems
                    /\ source' = doc
                    /\ IF parse_dimension_raises(width) \/ parse_dimension_raises(height)
                       THEN /\ Handled(printed, "could not convert string to float")
                            /\ UNCHANGED stack
                       ELSE /\ stderr' = stderr \o printed
                                  \o << Line("Python: SVG dimensions",
                                             << ToString(parse_dimension(width).number),
                                                parse_dimension(width).times,
                                                ToString(parse_dimension(height).number),
                                                parse_dimension(height).times >>) >>
                            /\ stack' = subtree_ids(doc.elems, doc.root.children)
                            /\ pc' = "convert"
                            /\ UNCHANGED exit_code
    /\ UNCHANGED << pass, style_map, viewbox, leaf_elements, visit, first,
                    transform_str, result, leaf_count, call_vars, stdout, counts >>

\* lines 68-110: one element of root.iter(); the root <svg> is no shape and
\* no line, the elements below it are taken from the stack in document order
ConvertStep ==
    /\ pc = "convert"
    /\ stack # <<>>
    /\ LET id == Head(stack)
           elem == elems[id]
       IN  IF elem.tag \in SHAPE_TAGS
           THEN IF detected(elem, "fill") /\ ~ detected(elem, "stroke")
                THEN /\ elems' = [elems EXCEPT ![id] = fill_to_stroke(elem)]
                     /\ counts' = [counts EXCEPT !.fill_count = @ + 1]
                ELSE IF detected(elem, "stroke")
                THEN /\ counts' = [counts EXCEPT !.stroke_count = @ + 1]
                     /\ UNCHANGED elems
                ELSE UNCHANGED << elems, counts >>
           ELSE IF elem.tag = "line"
           THEN /\ counts' = [counts EXCEPT !.line_count = @ + 1]
                /\ UNCHANGED elems
           ELSE UNCHANGED << elems, counts >>
    /\ stack' = Tail(stack)
    /\ UNCHANGED << pc, pass, root, style_map, viewbox, leaf_elements, visit,
                    source, first, transform_str, result, leaf_count, call_vars,
                    exit_code, stdout, stderr >>

\* lines 112-135: the counts, the warning, the command line
ConvertDone ==
    /\ pc = "convert"
    /\ stack = <<>>
    /\ stderr' = stderr
          \o << Line("Python: Found", << ToString(counts.line_count),
                                         ToString(counts.stroke_count),
                                         ToString(counts.fill_count) >>) >>
          \o (IF counts.fill_count > 0
              THEN << Line("Python: WARNING - filled shapes converted to strokes",
                           << ToString(counts.fill_count) >>) >>
              ELSE <<>>)
          \o << Line("Python: Command: vpype", CropBounds) >>
    /\ pc' = "tool"
    /\ UNCHANGED << pass, root, elems, style_map, viewbox, stack, leaf_elements,
                    visit, source, first, transform_str, result, leaf_count,
                    call_vars, exit_code, stdout, counts >>

\* lines 137-147: the tool runs; a non-zero exit status is reported and ends
\* the run
RunTool ==
    /\ pc = "tool"
    /\ \E answer \in ToolResults :
          /\ result' = Some(answer)
          /\ IF answer.returncode # 0
             THEN /\ stderr' = stderr \o << Line("Python: ERROR - vpype failed:", <<>>),
                                            Line(answer.stderr, <<>>) >>
                  /\ exit_code' = Some(ToolExitStatus)
                  /\ pc' = "exited"
             ELSE /\ pc' = "write"
                  /\ UNCHANGED << stderr, exit_code >>
    /\ UNCHANGED << pass, root, elems, style_map, viewbox, stack, leaf_elements,
                    visit, source, first, transform_str, leaf_count, call_vars,
                    stdout, counts >>

\* line 137: the tool cannot be started (it is not installed)
ToolMissing ==
    /\ pc = "tool"
    /\ Handled(<<>>, "No such file or directory: 'vpype'")
    /\ UNCHANGED << pass, root, elems, style_map, viewbox, stack, leaf_elements,
                    visit, source, first, transform_str, result, leaf_count,
                    call_vars, stdout, counts >>

\* lines 149-163: the tool's document with the crop size, or the tool's
\* text as it is when it does not parse; main returns (exit status 0)
WriteOutput ==
    /\ pc = "write"
    /\ LET output_svg == result[1].stdout
           size == Line("Python: Cropped SVG size", <<>>)
           with_crop_size(elem) ==
               set_attr(set_attr(set_attr(elem, "width", CropBounds[3]),
                                 "height", CropBounds[4]),
                        "viewBox", ViewBoxText("0", "0", CropBounds[3], CropBounds[4]))
       IN  IF output_svg.xml
           THEN /\ stdout' = Append(stdout,
                      [xml |-> TRUE, declaration |-> TRUE,
                       doc |-> [output_svg.doc EXCEPT !.root = with_crop_size(@)]])
                /\ stderr' = Append(stderr, size)
           ELSE /\ stdout' = Append(stdout, output_svg)
                /\ stderr' = stderr
                      \o << size,
                            Line("Python: Warning - could not update output dimensions",
                                 <<>>) >>
    /\ exit_code' = Some(0)
    /\ pc' = "exited"
    /\ UNCHANGED << pass, root, elems, style_map, viewbox, stack, leaf_elements,
                    visit, source, first, transform_str, result, leaf_count,
                    call_vars, counts >>

SpecCrop ==
    InitCrop /\ [][CropArgs \/ CropRead \/ ConvertStep \/ ConvertDone \/ RunTool
                     \/ ToolMissing \/ WriteOutput]_vars

(***************************************************************************)
(* PROPERTIES                                                              *)
(***************************************************************************)
\* the parent of an element of a document, 0 for a child of the root
ParentIn(doc, id) ==
    IF id \in SeqToSet(doc.root.children) THEN 0
    ELSE CHOOSE p \in DOMAIN doc.elems : id \in SeqToSet(doc.elems[p].children)

\* the proper ancestors of an element below the root
RECURSIVE AncestorsIn(_, _)
AncestorsIn(doc, id) ==
    LET p == ParentIn(doc, id)
    IN  IF p = 0 THEN {} ELSE {p} \cup AncestorsIn(doc, p)

\* the elements of the tree the run has produced
OutputTree == SeqToSet(subtree_ids(elems, root.children))

Flattened == pc = "offset" /\ pass = 1

Finished == pc = "done" /\ pass = 1

\* the values the <style> blocks of a document give property k for the
\* classes of an element
RuleValues(doc, elem, k) ==
    LET classes == IF has_attr(elem, "class") THEN SeqToSet(elem.attrs["class"]) ELSE {}
        rules == UNION { SeqToSet(doc.elems[i].text) : i \in DOMAIN doc.elems }
        matching == { r \in rules : r.class_name \in classes }
    IN  { decl[2] : decl \in UNION { { x \in SeqToSet(r.properties) : x[1] = k } :
                                     r \in matching } }

\* C1: after flatten_groups no element of the output tree carries a
\* transform or a class attribute, and none is a <g>.
C1_OutputTreeIsBare ==
    Flattened =>
        \A id \in OutputTree :
            /\ ~ has_attr(elems[id], "transform")
            /\ ~ has_attr(elems[id], "class")
            /\ elems[id].tag # "g"

\* C2: a leaf with a numeric stroke-width flattened under a non-identity
\* composed matrix M ends with stroke-width = original * (sx + sy) / 2.
C2_StrokeWidthScaled ==
    Flattened =>
        \A i \in 1..Len(leaf_elements) :
            LET id == leaf_elements[i]
                before == source.elems[id]
                M == visit[id].composed_matrix
                scale == get_matrix_scale(M)
            IN  ( /\ has_attr(before, "stroke-width")
                  /\ IsNumeric(before.attrs["stroke-width"])
                  /\ M # identity_matrix )
                => /\ has_attr(elems[id], "stroke-width")
                   /\ IsNumeric(elems[id].attrs["stroke-width"])
                   /\ 2 * float(elems[id].attrs["stroke-width"])
                        = float(before.attrs["stroke-width"]) * (scale[1] + scale[2])

\* an ancestor of the element sets attribute k to a value other than `none`
AncestorSupplies(doc, id, k) ==
    \E a \in AncestorsIn(doc, id) :
        /\ truthy_attr(doc.elems[a], k)
        /\ doc.elems[a].attrs[k] # "none"

\* C3: a leaf that sets fill, stroke or stroke-width to `none` itself, with no
\* class rule for it, keeps `none` whatever an ancestor supplies.
C3_ExplicitNoneWins ==
    Flattened =>
        \A i \in 1..Len(leaf_elements) : \A n \in 1..3 :
            LET id == leaf_elements[i]
                k == StyleAttrs[n]
                before == source.elems[id]
            IN  ( /\ has_attr(before, k)
                  /\ before.attrs[k] = "none"
                  /\ RuleValues(source, before, k) = {}
                  /\ AncestorSupplies(source, id, k) )
                => /\ has_attr(elems[id], k)
                   /\ elems[id].attrs[k] = "none"

\* the value the precedence of the claim gives attribute k of an element:
\* class rule (not `none`), else own attribute (not `none`), else the value
\* of the nearest ancestor that has one, else unset
RECURSIVE PrecedenceValue(_, _, _)
PrecedenceValue(doc, id, k) ==
    LET elem == doc.elems[id]
        ruled == RuleValues(doc, elem, k) \ {"none"}
        p == ParentIn(doc, id)
    IN  IF ruled # {} THEN Some(CHOOSE v \in ruled : TRUE)
        ELSE IF has_attr(elem, k) /\ elem.attrs[k] # "none" THEN Some(elem.attrs[k])
        ELSE IF p = 0 THEN None
        ELSE PrecedenceValue(doc, p, k)

ResolvedValue(id, k) ==
    CASE k = "fill" -> visit[id].fill
      [] k = "stroke" -> visit[id].stroke
      [] k = "stroke-width" -> visit[id].stroke_width

\* C4: every element resolves fill, stroke and stroke-width by the precedence
\* class rule (not `none`) > own attribute (not `none`) > inherited > unset;
\* a leaf of class `water` under .water{fill:#d9e9ff} with no fill of its own
\* ends with fill #d9e9ff and no class attribute.
C4_StylePrecedence ==
    pass = 1 =>
        /\ \A id \in DOMAIN visit : \A n \in 1..3 :
              ResolvedValue(id, StyleAttrs[n]) = PrecedenceValue(source, id, StyleAttrs[n])
        /\ Flattened =>
              \A i \in 1..Len(leaf_elements) :
                 LET id == leaf_elements[i]
                     before == source.elems[id]
                 IN  ( /\ has_attr(before, "class")
                       /\ before.attrs["class"] = <<"water">>
                       /\ RuleValues(source, before, "fill") = {"#d9e9ff"}
                       /\ ~ has_attr(before, "fill") )
                     => /\ has_attr(elems[id], "fill")
                        /\ elems[id].attrs["fill"] = "#d9e9ff"
                        /\ ~ has_attr(elems[id], "class")

\* the values the inline style text of an element declares for property k
InlineValues(elem, k) ==
    IF has_attr(elem, "style")
    THEN { decl[2] : decl \in { x \in SeqToSet(elem.attrs["style"]) : x[1] = k } }
    ELSE {}

\* C5: a leaf whose fill (stroke, stroke-width) comes only from its inline
\* style, with no class rule for it and an ancestor supplying another value,
\* is flattened with the inline value.
C5_InlineStyleCounts ==
    Flattened =>
        \A i \in 1..Len(leaf_elements) : \A n \in 1..3 :
            LET id == leaf_elements[i]
                k == StyleAttrs[n]
                before == source.elems[id]
            IN  ( /\ ~ has_attr(before, k)
                  /\ InlineValues(before, k) \ {"none"} # {}
                  /\ RuleValues(source, before, k) = {}
                  /\ AncestorSupplies(source, id, k) )
                => /\ has_attr(elems[id], k)
                   /\ elems[id].attrs[k] \in InlineValues(before, k)

\* a point carried through the element's own transform, then through each
\* ancestor's, innermost first, up to the root
RECURSIVE ApplyUp(_, _, _)
ApplyUp(doc, id, p) ==
    LET q == transform_point(p[1], p[2], elem_matrix_of(doc.elems[id]))
        parent == ParentIn(doc, id)
    IN  IF parent = 0 THEN q ELSE ApplyUp(doc, parent, q)

\* three points that fix an affine map
BasisPoints == { <<0, 0>>, <<1, 0>>, <<0, 1>> }

\* the element sits in <g transform="scale(2)"><g transform="translate(1,0)">
\* below the root and has no transform of its own
InScaleTranslateChain(doc, id) ==
    LET p == ParentIn(doc, id)
    IN  /\ ~ has_attr(doc.elems[id], "transform")
        /\ p # 0
        /\ ParentIn(doc, p) # 0
        /\ ParentIn(doc, ParentIn(doc, p)) = 0
        /\ get_attr(doc.elems[p], "transform") = Some(fn("translate", <<"1", "0">>))
        /\ get_attr(doc.elems[ParentIn(doc, p)], "transform") = Some(fn("scale", <<"2">>))

\* the points text a polygon gets when every point goes up the chain
RECURSIVE PointsUp(_, _, _)
PointsUp(doc, id, nums) ==
    IF Len(nums) < 2 THEN <<>>
    ELSE LET q == ApplyUp(doc, id, <<nums[1], nums[2]>>)
         IN  <<Fmt6(q[1]), Fmt6(q[2])>> \o PointsUp(doc, id, SubSeq(nums, 3, Len(nums)))

\* C6: the matrix baked into a leaf is the ancestors' matrices from outermost
\* to innermost times the leaf's own, the leaf's own acting on a point first;
\* under scale(2) > translate(1,0) it is (2,0,0,2,2,0).
C6_ComposedMatrix ==
    pass = 1 =>
        /\ \A id \in DOMAIN visit :
              /\ \A p \in BasisPoints :
                    transform_point(p[1], p[2], visit[id].composed_matrix)
                       = ApplyUp(source, id, p)
              /\ InScaleTranslateChain(source, id)
                    => visit[id].composed_matrix = <<2, 0, 0, 2, 2, 0>>
        /\ Flattened =>
              \A i \in 1..Len(leaf_elements) :
                 LET id == leaf_elements[i]
                     before == source.elems[id]
                 IN  ( /\ before.tag = "polygon"
                       /\ visit[id].composed_matrix # identity_matrix )
                     => elems[id].attrs["points"]
                           = PointsUp(source, id, Floats(before.attrs["points"]))

C6_Witness ==
    /\ Flattened
    /\ \E i \in 1..Len(leaf_elements) :
          LET id == leaf_elements[i]
          IN  /\ InScaleTranslateChain(source, id)
              /\ visit[id].composed_matrix = <<2, 0, 0, 2, 2, 0>>
              /\ source.elems[id].tag = "polygon"
              /\ elems[id].attrs["points"]
                    = <<"2.000000", "0.000000", "4.000000", "0.000000",
                        "2.000000", "2.000000">>

\* a point carried through the recognized functions of a transform text, the
\* last written acting first
RECURSIVE ApplyWritten(_, _)
ApplyWritten(items, p) ==
    IF items = <<>> THEN p
    ELSE LET item == Head(items)
             rest == ApplyWritten(Tail(items), p)
         IN  IF lower(item.name) \in TransformNames /\ item.args # <<>>
             THEN transform_point(rest[1], rest[2],
                                  primitive_matrix(lower(item.name), Floats(item.args)))
             ELSE rest

\* C7: parse_transform_string of f1 f2 ... fn is M1 x M2 x ... x Mn in written
\* order; unrecognized names contribute nothing; an empty or absent string
\* gives the identity.
C7_WrittenOrderProduct ==
    pc = "returned" =>
        /\ transform_str = None \/ transform_str = Some(<<>>)
              => result = Some(identity_matrix)
        /\ transform_str # None =>
              \A p \in BasisPoints :
                 transform_point(p[1], p[2], result[1]) = ApplyWritten(transform_str[1], p)

GeometryAttrs == {"d", "points", "x", "y", "width", "height", "cx", "cy", "r",
                  "rx", "ry", "x1", "y1", "x2", "y2"}

\* C8: a leaf whose applied matrix is the identity (also when transforms
\* cancel) keeps every geometry attribute exactly and loses any transform
\* attribute.
C8_IdentityKeepsGeometry ==
    Flattened =>
        \A i \in 1..Len(leaf_elements) :
            LET id == leaf_elements[i]
                before == source.elems[id]
            IN  visit[id].composed_matrix = identity_matrix
                => /\ \A a \in GeometryAttrs :
                         get_attr(elems[id], a) = get_attr(before, a)
                   /\ ~ has_attr(elems[id], "transform")

\* the coordinates of RelativePath, absolute
RelativePathCoordinates ==
    << cmd("M", <<1, 1>>), cmd("L", <<3, 1>>), cmd("L", <<6, 1>>), cmd("L", <<6, 2>>),
       cmd("L", <<2, 2>>), cmd("L", <<2, 4>>), cmd("Q", <<3, 4, 3, 5>>), cmd("Z", <<>>) >>

\* the numbers of a path text, command by command (a Z has no coordinates)
PathCoordinates(d) ==
    [i \in 1..Len(d) |->
        cmd(d[i].cmd, IF UpperOf[d[i].cmd] = "Z" THEN <<>> ELSE Floats(d[i].params))]

\* the leaf's composed transform is a translation by the viewBox origin, and
\* its coordinates are numbers
TranslationCancels(id) ==
    /\ source.elems[id].tag \in LEAF_TAGS
    /\ ~ geometry_raises(source.elems[id])
    /\ id \in DOMAIN visit
    /\ visit[id].composed_matrix = <<1, 0, 0, 1, viewbox.minX, viewbox.minY>>

\* C9: a leaf whose composed transform is translate(tx,ty), in a document
\* whose viewBox starts at (tx,ty), comes out of flattening and viewBox
\* normalization with coordinates numerically equal to those it had.
C9_TranslationRoundTrip ==
    Finished =>
        \A i \in 1..Len(leaf_elements) :
            LET id == leaf_elements[i]
                before == source.elems[id]
                after == elems[id]
            IN  TranslationCancels(id)
                => /\ \A a \in GeometryAttrs \ {"d", "points"} :
                         /\ has_attr(before, a) => has_attr(after, a)
                         /\ has_attr(after, a)
                               => float(after.attrs[a])
                                     = float(get_attr_default(before, a, "0"))
                   /\ has_attr(before, "points")
                         => Floats(after.attrs["points"]) = Floats(before.attrs["points"])
                   /\ has_attr(before, "d")
                         => PathCoordinates(after.attrs["d"])
                               = IF before.attrs["d"] = RelativePath
                                    /\ after.attrs["d"] # RelativePath
                                 THEN RelativePathCoordinates
                                 ELSE PathCoordinates(before.attrs["d"])

C9_Witness ==
    /\ Finished
    /\ viewbox.minX = 1
    /\ viewbox.minY = 2
    /\ \E i \in 1..Len(leaf_elements) :
          LET id == leaf_elements[i]
          IN  /\ TranslationCancels(id)
              /\ source.elems[id].tag = "rect"
              /\ get_attr(source.elems[id], "x") = Some("3")
              /\ get_attr(elems[id], "x") = Some("3.000000")
              /\ get_attr(elems[id], "y") = Some("4.000000")

\* C10: the whole pass run on its own output changes nothing: every leaf has
\* the identity matrix, the viewBox origin is zero, and elements, their
\* order and the root's viewBox, width and height are those of the first run.
C10_SecondPassNoOp ==
    (pc = "done" /\ pass = 2) =>
        /\ \A id \in DOMAIN visit : visit[id].composed_matrix = identity_matrix
        /\ viewbox.minX = 0
        /\ viewbox.minY = 0
        /\ root = first[1].root
        /\ \A id \in OutputTree :
              /\ elems[id] = first[1].elems[id]
              /\ id \in DOMAIN visit
                    => \A n \in 1..3 :
                          truthy(ResolvedValue(id, StyleAttrs[n]))
                             => get_attr(first[1].elems[id], StyleAttrs[n])
                                   = ResolvedValue(id, StyleAttrs[n])

C10_Witness ==
    /\ pc = "done"
    /\ pass = 2
    /\ parse_viewbox(get_attr(source.root, "viewBox")) # None
    /\ parse_viewbox(get_attr(source.root, "viewBox"))[1].minX = 1
    /\ get_attr(root, "viewBox") = Some(ViewBoxText("0", "0", "10.0", "20.0"))
    /\ \E id \in OutputTree :
          /\ first[1].visit[id].composed_matrix = <<2, 0, 0, 2, 0, 0>>
          /\ elems[id] # source.elems[id]
          /\ elems[id] = first[1].elems[id]

\* the root's viewBox attribute starts at (0,0) and width and height state
\* its extent
ViewBoxMatchesSize(r) ==
    LET vb == parse_viewbox(get_attr(r, "viewBox"))
    IN  /\ vb # None
        /\ vb[1].minX = 0
        /\ vb[1].minY = 0
        /\ truthy_attr(r, "width") /\ IsNumeric(r.attrs["width"])
        /\ truthy_attr(r, "height") /\ IsNumeric(r.attrs["height"])
        /\ float(r.attrs["width"]) = vb[1].width
        /\ float(r.attrs["height"]) = vb[1].height

\* C11: after the full run on any document (viewBox at zero, elsewhere,
\* missing or unparsable) the root's viewBox has origin (0,0) and width and
\* height equal the viewBox's.
C11_ViewBoxZeroOrigin ==
    Finished => ViewBoxMatchesSize(root)

\* the four corners of a rect element, moved by a matrix
MovedCorners(elem, matrix) ==
    LET x == float(get_attr_default(elem, "x", "0"))
        y == float(get_attr_default(elem, "y", "0"))
        w == float(get_attr_default(elem, "width", "0"))
        h == float(get_attr_default(elem, "height", "0"))
    IN  { transform_point(c[1], c[2], matrix) :
            c \in { <<x, y>>, <<x + w, y>>, <<x + w, y + h>>, <<x, y + h>> } }

\* the flattened leaf is a rect that a non-identity matrix was applied to
RectBaked(id) ==
    /\ source.elems[id].tag = "rect"
    /\ ~ geometry_raises(source.elems[id])
    /\ visit[id].composed_matrix # identity_matrix

\* C13: a rect under a non-identity matrix gets x, y, width, height of the
\* axis-aligned bounding box of its four moved corners, width and height
\* never negative; rect (0,0,10,10) under rotate(90) covers [-10,0] x [0,10].
C13_RectBoundingBox ==
    Flattened =>
        \A i \in 1..Len(leaf_elements) :
            LET id == leaf_elements[i]
                corners == MovedCorners(source.elems[id], visit[id].composed_matrix)
                x == float(elems[id].attrs["x"])
                y == float(elems[id].attrs["y"])
                w == float(elems[id].attrs["width"])
                h == float(elems[id].attrs["height"])
            IN  RectBaked(id)
                => /\ w >= 0 /\ h >= 0
                   /\ \A c \in corners : x <= c[1] /\ c[1] <= x + w
                                         /\ y <= c[2] /\ c[2] <= y + h
                   /\ \E c \in corners : c[1] = x
                   /\ \E c \in corners : c[1] = x + w
                   /\ \E c \in corners : c[2] = y
                   /\ \E c \in corners : c[2] = y + h

C13_Witness ==
    /\ Flattened
    /\ \E i \in 1..Len(leaf_elements) :
          LET id == leaf_elements[i]
          IN  /\ RectBaked(id)
              /\ get_attr(source.elems[id], "width") = Some("10")
              /\ visit[id].composed_matrix = <<0, 1, 0 - 1, 0, 0, 0>>
              /\ elems[id].attrs["x"] = "-10.000000"
              /\ elems[id].attrs["y"] = "0.000000"
              /\ elems[id].attrs["width"] = "10.000000"
              /\ elems[id].attrs["height"] = "10.000000"

\* C14: a recoverable anomaly in one element (a non-numeric geometry value,
\* a malformed number in a path or a transform, an unknown path letter or
\* transform name) never aborts the run.
C14_NeverAborts ==
    pc # "error"

\* points to compare two affine maps on
ProbePoints == BasisPoints \cup { <<2, 3>>, <<0 - 1, 4>> }

\* C15: multiply_matrices is associative, and transform_point with A x B is
\* transform_point with A after transform_point with B.
C15_Associative ==
    pc = "returned" =>
        /\ result[1].ab_c = result[1].a_bc
        /\ \A p \in ProbePoints :
              LET q == transform_point(p[1], p[2], args[2])
              IN  transform_point(p[1], p[2], result[1].ab)
                     = transform_point(q[1], q[2], args[1])

C15_Witness ==
    /\ pc = "returned"
    /\ args = << <<2, 0, 0, 3, 0, 0>>, <<1, 0, 0, 1, 1, 2>>, <<0, 1, 0 - 1, 0, 0, 0>> >>
    /\ result[1].ab = <<2, 0, 0, 3, 2, 6>>
    /\ result[1].ab_c = <<0, 3, 0 - 2, 0, 2, 6>>

\* the elements of the input document in depth-first, left-to-right order
DocumentOrder == subtree_ids(source.elems, source.root.children)

\* C16: after flatten_groups the root's children are exactly the collected
\* leaves, in the order a depth-first, left-to-right walk of the input tree
\* meets them, and the returned count is the number of root children.
C16_LeavesInDocumentOrder ==
    Flattened =>
        /\ root.children = leaf_elements
        /\ leaf_count = Len(root.children)
        /\ Cardinality(SeqToSet(leaf_elements)) = Len(leaf_elements)
        /\ SelectSeq(DocumentOrder, LAMBDA id : id \in SeqToSet(leaf_elements))
              = root.children
        /\ \A id \in SeqToSet(root.children) : source.elems[id].tag \in LEAF_TAGS

C16_Witness ==
    /\ Flattened
    /\ source.root.children = <<1, 3>>
    /\ source.elems[1].tag = "g"
    /\ source.elems[1].children = <<2>>
    /\ root.children = <<2, 3>>
    /\ leaf_count = 2

\* how many times id occurs in the sequence ids
Occurrences(ids, id) == Cardinality({i \in 1..Len(ids) : ids[i] = id})

\* C17: the traversal reaches every leaf drawable element of the input
\* document: each one appears exactly once among the output root's children,
\* whatever kind of element contains it.
C17_EveryLeafReached ==
    Flattened =>
        \A id \in SeqToSet(DocumentOrder) :
            source.elems[id].tag \in LEAF_TAGS => Occurrences(root.children, id) = 1

(***************************************************************************)
(* transform_path_d, one command at a time                                 *)
(***************************************************************************)
RECURSIVE SumOf(_, _)
SumOf(f, n) == IF n = 0 THEN 0 ELSE f[n] + SumOf(f, n - 1)

\* a turn of the loop that handled the command `item` and appended `out`
LoopTurn == pc = "call" /\ pc' = "call" /\ commands # <<>>

TurnItem == Head(commands)

TurnOut == path_result'[Len(path_result')]

\* numbers in one segment of the commands made of coordinate pairs
GroupSize ==
    [c \in {"M", "L", "T", "C", "S", "Q"} |->
        CASE c \in {"M", "L", "T"} -> 2 [] c = "C" -> 6 [] c \in {"S", "Q"} -> 4]

\* The untransformed current point (axis 0: x, axis 1: y) at the start of
\* segment j of a command: the point before the command for the first
\* segment, then the endpoint of segment j - 1, which for a relative command
\* is the starting point plus the endpoint offsets so far.
SegmentStart(nums, size, rel, j, cur, axis) ==
    IF j = 1 THEN cur
    ELSE IF rel
         THEN cur + SumOf([m \in 1..(j - 1) |-> nums[size * m - 1 + axis]], j - 1)
         ELSE nums[size * (j - 1) - 1 + axis]

PairTurn ==
    LET up == UpperOf[TurnItem.cmd]
        rel == islower(TurnItem.cmd)
        nums == Floats(TurnItem.params)
        size == GroupSize[up]
        k == Len(nums) \div size
        startx(j) == SegmentStart(nums, size, rel, j, current_x, 0)
        starty(j) == SegmentStart(nums, size, rel, j, current_y, 1)
    IN  (LoopTurn /\ up \in DOMAIN GroupSize /\ TurnItem.params # <<>>) =>
            /\ Len(path_result') = Len(path_result) + 1
            /\ TurnOut.cmd = up
            /\ Len(TurnOut.params) = k * size
            /\ \A j \in 1..k : \A p \in 1..(size \div 2) :
                  LET ix == size * (j - 1) + 2 * p - 1
                      x == nums[ix] + (IF rel THEN startx(j) ELSE 0)
                      y == nums[ix + 1] + (IF rel THEN starty(j) ELSE 0)
                      moved == transform_point(x, y, args[2])
                  IN  /\ TurnOut.params[ix] = Fmt6(moved[1])
                      /\ TurnOut.params[ix + 1] = Fmt6(moved[2])
            /\ current_x' = startx(k + 1)
            /\ current_y' = starty(k + 1)

ExampleResult ==
    (args = <<ExamplePath, <<1, 0, 0, 1, 5, 5>>>> /\ pc = "returned") =>
        result = Some(<< cmd("M", <<"5.000000", "5.000000">>),
                         cmd("L", <<"15.000000", "5.000000">>),
                         cmd("L", <<"15.000000", "15.000000">>),
                         cmd("Z", <<>>) >>)

\* C12: every M/L/T/C/S/Q command that carries coordinates, absolute or
\* relative, is emitted with its uppercase letter, and every emitted pair is
\* the matrix applied to the pair's absolute position, a relative pair being
\* offset by the untransformed current point at the start of its segment; the
\* current point then becomes the segment's untransformed endpoint.  The path
\* M 0 0 L 10 0 L 10 10 Z under translate(5,5) gives (5,5), (15,5), (15,15), Z.
C12_AbsolutePairs == [][PairTurn]_vars /\ []ExampleResult

C12_Witness ==
    /\ args = << <<cmd("m", <<"1", "2">>), cmd("l", <<"1", "1", "2", "0">>),
                   cmd("c", <<"1", "0", "2", "1", "3", "3">>)>>,
                 <<2, 0, 0, 3, 0, 0>> >>
    /\ pc = "returned"
    /\ result = Some(<< cmd("M", <<"2.000000", "6.000000">>),
                        cmd("L", <<"4.000000", "9.000000", "8.000000", "9.000000">>),
                        cmd("C", <<"10.000000", "9.000000", "12.000000", "12.000000",
                                   "14.000000", "18.000000">>) >>)
    /\ current_x = 7
    /\ current_y = 6

\* the untransformed coordinate the i-th value of an H or V command names
AxisValue(nums, rel, i, cur) ==
    IF rel THEN cur + SumOf(nums, i) ELSE nums[i]

AxisTurn ==
    LET up == UpperOf[TurnItem.cmd]
        rel == islower(TurnItem.cmd)
        nums == Floats(TurnItem.params)
        n == Len(nums)
        point(i) == IF up = "H"
                    THEN <<AxisValue(nums, rel, i, current_x), current_y>>
                    ELSE <<current_x, AxisValue(nums, rel, i, current_y)>>
    IN  (LoopTurn /\ up \in {"H", "V"} /\ TurnItem.params # <<>>) =>
            /\ TurnOut.cmd = "L"
            /\ Len(TurnOut.params) = 2 * n
            /\ \A i \in 1..n :
                  LET moved == transform_point(point(i)[1], point(i)[2], args[2])
                  IN  /\ TurnOut.params[2 * i - 1] = Fmt6(moved[1])
                      /\ TurnOut.params[2 * i] = Fmt6(moved[2])
            /\ <<current_x', current_y'>> = point(n)

\* C18: every H/h and V/v command is emitted as an absolute L whose points are
\* the matrix applied to the full untransformed point (the new x with the
\* current y for H, the current x with the new y for V, a relative value first
\* added to the current coordinate of its axis), and afterwards only that
\* axis of the tracked current point has changed.
C18_AxisLinesBecomeL == [][AxisTurn]_vars

C18_Witness ==
    /\ args = << <<cmd("m", <<"1", "2">>), cmd("h", <<"3">>), cmd("v", <<"1", "2">>)>>,
                 <<0, 1, 0 - 1, 0, 0, 0>> >>
    /\ pc = "returned"
    /\ result = Some(<< cmd("M", <<"-2.000000", "1.000000">>),
                        cmd("L", <<"-2.000000", "4.000000">>),
                        cmd("L", <<"-3.000000", "4.000000", "-5.000000", "4.000000">>) >>)
    /\ current_x = 4
    /\ current_y = 5

\* r is the norm of the column (u, v) of the matrix
IsNorm(r, u, v) == r \in Nat /\ r * r = u * u + v * v

ArcTurn ==
    LET rel == islower(TurnItem.cmd)
        nums == Floats(TurnItem.params)
        k == Len(nums) \div 7
        matrix == args[2]
        negative == matrix[1] * matrix[4] - matrix[2] * matrix[3] < 0
        startx(j) == SegmentStart(nums, 7, rel, j, current_x, 0)
        starty(j) == SegmentStart(nums, 7, rel, j, current_y, 1)
    IN  (LoopTurn /\ UpperOf[TurnItem.cmd] = "A" /\ TurnItem.params # <<>>) =>
            /\ TurnOut.cmd = "A"
            /\ Len(TurnOut.params) = 7 * k
            /\ \A j \in 1..k :
                  LET o == 7 * (j - 1)
                      x == nums[o + 6] + (IF rel THEN startx(j) ELSE 0)
                      y == nums[o + 7] + (IF rel THEN starty(j) ELSE 0)
                      moved == transform_point(x, y, matrix)
                  IN  /\ \E sx \in 0..MaxNum :
                            /\ IsNorm(sx, matrix[1], matrix[2])
                            /\ TurnOut.params[o + 1] = Fmt6(nums[o + 1] * sx)
                      /\ \E sy \in 0..MaxNum :
                            /\ IsNorm(sy, matrix[3], matrix[4])
                            /\ TurnOut.params[o + 2] = Fmt6(nums[o + 2] * sy)
                      /\ TurnOut.params[o + 4] = Fmt6(nums[o + 4])
                      /\ TurnOut.params[o + 5] =
                            Fmt6(IF negative THEN 1 - nums[o + 5] ELSE nums[o + 5])
                      /\ TurnOut.params[o + 6] = Fmt6(moved[1])
                      /\ TurnOut.params[o + 7] = Fmt6(moved[2])

\* C19: for every elliptical-arc segment rewritten under matrix (a,b,c,d,e,f)
\* the sweep flag becomes 1 - sweep exactly when a*d - b*c is negative and is
\* unchanged otherwise, the large-arc flag is unchanged, rx and ry are
\* multiplied by the column norms sx and sy, and the endpoint is the matrix
\* applied to the absolute endpoint.
C19_ArcSegments == [][ArcTurn]_vars

C19_Witness ==
    /\ args = << <<cmd("m", <<"1", "2">>),
                   cmd("a", <<"1", "2", "0", "1", "0", "5", "5">>),
                   cmd("A", <<"2", "1", "90", "0", "1", "3", "4",
                              "1", "1", "0", "1", "1", "7", "8">>)>>,
                 <<0, 1, 1, 0, 1, 0>> >>
    /\ pc = "returned"
    /\ result[1][2].params[4] = "1.000000"
    /\ result[1][2].params[5] = "1.000000"
    /\ result[1][2].params[6] = "8.000000"
    /\ result[1][2].params[7] = "6.000000"
    /\ result[1][3].params[5] = "0.000000"
    /\ result[1][3].params[12] = "0.000000"

CloseTurn ==
    (LoopTurn /\ UpperOf[TurnItem.cmd] = "Z") =>
        /\ TurnOut = cmd("Z", <<>>)
        /\ current_x' = current_x
        /\ current_y' = current_y

\* a path <<moveto, Z or z, relative M/L/T with one pair>> once all three
\* commands are handled: the pair is resolved against the moveto's point
\* (a first moveto starts from (0, 0), so m names the same point as M)
AfterClose ==
    LET d == args[1]
    IN  ( /\ pc \in {"call", "returned"}
          /\ Len(d) = 3
          /\ Len(path_result) = 3
          /\ d[1].cmd \in {"M", "m"}
          /\ UpperOf[d[2].cmd] = "Z"
          /\ d[3].cmd \in {"m", "l", "t"}
          /\ Len(d[3].params) = 2 ) =>
            LET last == Floats(d[1].params)
                delta == Floats(d[3].params)
                moved == transform_point(last[1] + delta[1], last[2] + delta[2], args[2])
            IN  /\ path_result[2] = cmd("Z", <<>>)
                /\ path_result[3].params = <<Fmt6(moved[1]), Fmt6(moved[2])>>
                /\ <<current_x, current_y>> = <<last[1] + delta[1], last[2] + delta[2]>>

\* C20: a close-path command (Z or z) is emitted as Z with no coordinates and
\* leaves the tracked current point unchanged, so a relative command that
\* follows a Z is resolved against the last endpoint before the Z.
C20_ClosePathKeepsPoint == [][CloseTurn]_vars /\ []AfterClose

C20_Witness ==
    /\ args = << <<cmd("m", <<"1", "2">>), cmd("z", <<>>), cmd("m", <<"3", "1">>)>>,
                 <<1, 0, 0, 1, 5, 5>> >>
    /\ pc = "returned"
    /\ result = Some(<< cmd("M", <<"6.000000", "7.000000">>), cmd("Z", <<>>),
                        cmd("M", <<"9.000000", "8.000000">>) >>)
    /\ current_x = 4
    /\ current_y = 3

(***************************************************************************)
(* crop_svg                                                                *)
(***************************************************************************)
\* the run has ended after the external tool answered with a non-zero status
ToolFailed == pc = "exited" /\ result # None /\ result[1].returncode # 0

\* the exit statuses of crop_svg's other failures: bad arguments (line 17)
\* and an exception such as unparsable input (line 172)
OtherFailureStatuses == {UsageExitStatus, ErrorExitStatus}

\* C21: when the external cropping tool exits with a non-zero status,
\* crop_svg writes no SVG document to its output, reports the tool's
\* diagnostic output, and ends with a failure exit status that is distinct
\* from the status of its other failures (bad arguments, unparsable input).
C21_ToolFailureDistinct ==
    ToolFailed =>
        /\ stdout = <<>>
        /\ \E i \in 1..Len(stderr) : stderr[i] = Line(result[1].stderr, <<>>)
        /\ exit_code # None
        /\ exit_code[1] # 0
        /\ exit_code[1] \notin OtherFailureStatuses

\* the part of C21 that does not speak of a distinct status
ToolFailureReported ==
    ToolFailed =>
        /\ stdout = <<>>
        /\ \E i \in 1..Len(stderr) : stderr[i] = Line(result[1].stderr, <<>>)
        /\ exit_code # None
        /\ exit_code[1] # 0

\* the conversion pass over the elements has ended
PassDone == pc = "tool"

\* the text the detection rule reads for a property: the inline style entry
\* first, the attribute otherwise
DetectedText(elem, name) ==
    LET style == get_attr_default(elem, "style", <<>>)
    IN  IF in_style(style, name) THEN style_match(style, name)
        ELSE get_attr_default(elem, name, "")

ShapeIds == {id \in DOMAIN elems : source.elems[id].tag \in SHAPE_TAGS}

\* C22: after the fill-to-stroke conversion pass every shape element that had
\* a fill and no stroke before the pass is stroke-only under the script's own
\* detection rule (inline style entry first, attribute otherwise): it is
\* detected as having a stroke whose color is its former fill color and as
\* having no fill; elements that already had a stroke are left unchanged.
C22_FilledShapesBecomeStrokeOnly ==
    PassDone =>
        \A id \in ShapeIds :
            LET before == source.elems[id]
                after == elems[id]
            IN  /\ (detected(before, "fill") /\ ~ detected(before, "stroke")) =>
                      /\ detected(after, "stroke")
                      /\ DetectedText(after, "stroke") = DetectedText(before, "fill")
                      /\ ~ detected(after, "fill")
                /\ detected(before, "stroke") => after = before

=============================================================================
